---- MODULE Spec2Model ----
(***************************************************************************)
(* Model of the ticket MCP server: the tool boundary (server.py), the      *)
(* direct lookup (tools/get_ticket.py), the semantic search                *)
(* (tools/search.py), the display-mode HTML normalizer                     *)
(* (tools/ticket_cleaner.py), and of the ingestion scripts: the lenient    *)
(* normalizer, preprocess_text and process_tickets                         *)
(* (PY_Scripts/clean_html.py) and load_tickets_from_json                   *)
(* (PY_Scripts/ticket_loader.py).                                          *)
(*                                                                         *)
(* Strings are sequences of one-character strings.                         *)
(***************************************************************************)
EXTENDS Integers, Sequences, FiniteSets, TLC

\* ------------------------------------------------------------------------
\* Bounds of the model
\* ------------------------------------------------------------------------
MaxLen == 4        \* longest exhaustively enumerated identifier
MaxNumLen == 2     \* longest ticket number in the structured identifiers
MaxLetters == 2    \* longest letter run in the structured identifiers
MaxRows == 3       \* most rows the relational store returns for one query
MaxDocs == 3       \* most results the vector store returns for one query

\* ------------------------------------------------------------------------
\* Characters and strings
\* ------------------------------------------------------------------------
Digit == {"0", "1", "2", "3", "4", "5", "6", "7", "8", "9"}

Letter == {"a", "b", "c", "d", "e", "f", "g", "h", "i", "j", "k", "l", "m",
           "n", "o", "p", "q", "r", "s", "t", "u", "v", "w", "x", "y", "z",
           "A", "B", "C", "D", "E", "F", "G", "H", "I", "J", "K", "L", "M",
           "N", "O", "P", "Q", "R", "S", "T", "U", "V", "W", "X", "Y", "Z"}

\* what str.strip() removes and what \s matches
Space == {" ", "\t", "\n", "\r", "nbsp"}

DigitVal(c) ==
    CASE c = "0" -> 0 [] c = "1" -> 1 [] c = "2" -> 2 [] c = "3" -> 3
      [] c = "4" -> 4 [] c = "5" -> 5 [] c = "6" -> 6 [] c = "7" -> 7
      [] c = "8" -> 8 [] c = "9" -> 9

\* int(s) of a string of digits
RECURSIVE ToInt(_)
ToInt(s) ==
    IF s = <<>> THEN 0
    ELSE 10 * ToInt(SubSeq(s, 1, Len(s) - 1)) + DigitVal(s[Len(s)])

AllIn(s, S) == \A i \in 1..Len(s) : s[i] \in S

\* length of the longest prefix of s starting at position i made of S chars
RECURSIVE RunLen(_, _, _)
RunLen(s, i, S) ==
    IF i > Len(s) \/ s[i] \notin S THEN 0 ELSE 1 + RunLen(s, i + 1, S)

\* s[i..] (empty when i is past the end)
From(s, i) == SubSeq(s, i, Len(s))

\* str.strip()
Strip(s) ==
    IF AllIn(s, Space) THEN <<>>
    ELSE LET a == CHOOSE i \in 1..Len(s) :
                    s[i] \notin Space /\ \A j \in 1..(i - 1) : s[j] \in Space
             b == CHOOSE i \in 1..Len(s) :
                    s[i] \notin Space /\ \A j \in (i + 1)..Len(s) : s[j] \in Space
         IN SubSeq(s, a, b)

\* ------------------------------------------------------------------------
\* parse_ticket_id  (tools/get_ticket.py)
\* ------------------------------------------------------------------------
YearDigits == 4    \* the \d{4} of the three year patterns

NoMatch == <<>>

\* ^(\d+)/[A-Za-z]*-?(\d{4})$
Match1NoLetters(s) ==
    LET n == RunLen(s, 1, Digit)
        l == 0
        d == IF n + 2 + l <= Len(s) /\ s[n + 2 + l] = "-" THEN 1 ELSE 0
        y == From(s, n + 2 + l + d)
    IN IF n >= 1 /\ n + 1 <= Len(s) /\ s[n + 1] = "/"
          /\ Len(y) = YearDigits /\ AllIn(y, Digit)
       THEN <<SubSeq(s, 1, n), y>> ELSE NoMatch

Match1(s) ==
    LET n == RunLen(s, 1, Digit)
        l == RunLen(s, n + 2, Letter)
        d == IF n + 2 + l <= Len(s) /\ s[n + 2 + l] = "-" THEN 1 ELSE 0
        y == From(s, n + 2 + l + d)
    IN IF n >= 1 /\ n + 1 <= Len(s) /\ s[n + 1] = "/"
          /\ Len(y) = YearDigits /\ AllIn(y, Digit)
       THEN <<SubSeq(s, 1, n), y>> ELSE NoMatch

\* ^(\d+)/(\d{4})$
Match2(s) ==
    LET n == RunLen(s, 1, Digit)
        y == From(s, n + 2)
    IN IF n >= 1 /\ n + 1 <= Len(s) /\ s[n + 1] = "/"
          /\ Len(y) = YearDigits /\ AllIn(y, Digit)
       THEN <<SubSeq(s, 1, n), y>> ELSE NoMatch

\* ^(\d+)-(\d{4})$
Match3(s) ==
    LET n == RunLen(s, 1, Digit)
        y == From(s, n + 2)
    IN IF n >= 1 /\ n + 1 <= Len(s) /\ s[n + 1] = "-"
          /\ Len(y) = YearDigits /\ AllIn(y, Digit)
       THEN <<SubSeq(s, 1, n), y>> ELSE NoMatch

\* ^(\d+)$
Match4(s) ==
    IF Len(s) >= 1 /\ AllIn(s, Digit) THEN <<s>> ELSE NoMatch

\* the patterns list, in the order the loop tries them
patterns(s) == <<Match1(s), Match2(s), Match3(s), Match4(s)>>

\* re.search(r'(\d+)', s): the leftmost digit run, taken greedily
SearchDigitsLast(s) ==
    IF \E i \in 1..Len(s) : s[i] \in Digit
    THEN LET a == CHOOSE i \in 1..Len(s) :
                    s[i] \in Digit /\ \A j \in (i + 1)..Len(s) : s[j] \notin Digit
         IN <<SubSeq(s, a, a)>>
    ELSE NoMatch

SearchDigits(s) ==
    IF \E i \in 1..Len(s) : s[i] \in Digit
    THEN LET a == CHOOSE i \in 1..Len(s) :
                    s[i] \in Digit /\ \A j \in 1..(i - 1) : s[j] \notin Digit
         IN <<SubSeq(s, a, a + RunLen(s, a, Digit) - 1)>>
    ELSE NoMatch

ParseOk(n, y) == [ok |-> TRUE, number |-> n, year |-> y]
ParseFail == [ok |-> FALSE, number |-> <<>>, year |-> 0]

\* parse_ticket_id(ticket_id) called when the calendar year is cur
parse_ticket_id_never_raises(ticket_id, cur) ==
    LET s == Strip(ticket_id)
        ms == patterns(s)
    IN IF \E k \in 1..Len(ms) : ms[k] # NoMatch
       THEN LET k == CHOOSE k \in 1..Len(ms) :
                       ms[k] # NoMatch /\ \A j \in 1..(k - 1) : ms[j] = NoMatch
                m == ms[k]
            IN IF Len(m) = 2 THEN ParseOk(m[1], ToInt(m[2]))
               ELSE ParseOk(m[1], cur)
       ELSE LET number_match == SearchDigits(s)
            IN IF number_match # NoMatch THEN ParseOk(number_match[1], cur)
               ELSE ParseOk(<<>>, cur)

parse_ticket_id(ticket_id, cur) ==
    LET s == Strip(ticket_id)
        ms == patterns(s)
    IN IF \E k \in 1..Len(ms) : ms[k] # NoMatch
       THEN LET k == CHOOSE k \in 1..Len(ms) :
                       ms[k] # NoMatch /\ \A j \in 1..(k - 1) : ms[j] = NoMatch
                m == ms[k]
            IN IF Len(m) = 2 THEN ParseOk(m[1], ToInt(m[2]))
               ELSE ParseOk(m[1], cur)
       ELSE LET number_match == SearchDigits(s)
            IN IF number_match # NoMatch THEN ParseOk(number_match[1], cur)
               ELSE ParseFail

\* ------------------------------------------------------------------------
\* clean_html_content, display mode  (tools/ticket_cleaner.py)
\*
\* The markup of the model has p, br and inline elements and the five named
\* entities; it has no list, table or quote element, so the three loops over
\* those elements run zero times.
\* ------------------------------------------------------------------------
StartsWith(s, i, pat) ==
    /\ i + Len(pat) - 1 <= Len(s)
    /\ \A k \in 1..Len(pat) : s[i + k - 1] = pat[k]

\* position of the first c at or after i, 0 when there is none
RECURSIVE Find(_, _, _)
Find(s, i, c) ==
    IF i > Len(s) THEN 0 ELSE IF s[i] = c THEN i ELSE Find(s, i + 1, c)

\* s with every non-overlapping occurrence of pat, left to right, replaced
\* by rep: str.replace(pat, rep)
RECURSIVE Replace(_, _, _, _)
Replace(s, i, pat, rep) ==
    IF i > Len(s) THEN <<>>
    ELSE IF StartsWith(s, i, pat) THEN rep \o Replace(s, i + Len(pat), pat, rep)
    ELSE <<s[i]>> \o Replace(s, i + 1, pat, rep)

E_nbsp == <<"&", "n", "b", "s", "p", ";">>
E_lt == <<"&", "l", "t", ";">>
E_gt == <<"&", "g", "t", ";">>
E_amp == <<"&", "a", "m", "p", ";">>
E_quot == <<"&", "q", "u", "o", "t", ";">>

\* a tag starts at i: "<" name ... ">" or "</" name ... ">"
IsTagAt(s, i) ==
    /\ s[i] = "<"
    /\ Find(s, i, ">") # 0
    /\ \/ (i + 1 <= Len(s) /\ s[i + 1] \in Letter)
       \/ (i + 2 <= Len(s) /\ s[i + 1] = "/" /\ s[i + 2] \in Letter)

IsEndTag(s, i) == s[i + 1] = "/"

TagName(s, i) ==
    LET a == IF IsEndTag(s, i) THEN i + 2 ELSE i + 1
    IN SubSeq(s, a, a + RunLen(s, a, Letter) - 1)

\* BeautifulSoup(html, 'html.parser') followed by the p loop, the br loop and
\* soup.get_text(), read off the markup from position i; depth is the number
\* of p elements open at i.  A p becomes its text and a blank line, a br
\* outside every p becomes a newline (inside a p it is lost with the p's
\* tags), any other tag leaves only its text, entities are decoded.
RECURSIVE SoupText(_, _, _)
SoupText(s, i, depth) ==
    IF i > Len(s) THEN (IF depth > 0 THEN <<"\n", "\n">> ELSE <<>>)
    ELSE IF IsTagAt(s, i) THEN
        LET j == Find(s, i, ">")
            nm == TagName(s, i)
        IN IF nm = <<"p">> /\ ~IsEndTag(s, i) THEN SoupText(s, j + 1, depth + 1)
           ELSE IF nm = <<"p">> /\ IsEndTag(s, i) THEN
               IF depth = 0 THEN SoupText(s, j + 1, 0)
               ELSE (IF depth = 1 THEN <<"\n", "\n">> ELSE <<>>)
                    \o SoupText(s, j + 1, depth - 1)
           ELSE IF nm = <<"b", "r">> /\ ~IsEndTag(s, i) /\ depth = 0
               THEN <<"\n">> \o SoupText(s, j + 1, depth)
           ELSE SoupText(s, j + 1, depth)
    ELSE IF StartsWith(s, i, E_nbsp) THEN <<"nbsp">> \o SoupText(s, i + Len(E_nbsp), depth)
    ELSE IF StartsWith(s, i, E_lt) THEN <<"<">> \o SoupText(s, i + Len(E_lt), depth)
    ELSE IF StartsWith(s, i, E_gt) THEN <<">">> \o SoupText(s, i + Len(E_gt), depth)
    ELSE IF StartsWith(s, i, E_amp) THEN <<"&">> \o SoupText(s, i + Len(E_amp), depth)
    ELSE IF StartsWith(s, i, E_quot) THEN <<"\"">> \o SoupText(s, i + Len(E_quot), depth)
    ELSE <<s[i]>> \o SoupText(s, i + 1, depth)

\* re.sub(r'[ \t]+', ' ', text)
RECURSIVE CollapseBlanks(_, _)
CollapseBlanks(s, i) ==
    IF i > Len(s) THEN <<>>
    ELSE IF s[i] \in {" ", "\t"}
         THEN <<" ">> \o CollapseBlanks(s, i + RunLen(s, i, {" ", "\t"}))
         ELSE <<s[i]>> \o CollapseBlanks(s, i + 1)

\* re.sub(r'\n{3,}', '\n\n', text)
RECURSIVE CollapseNewlines(_, _)
CollapseNewlines(s, i) ==
    IF i > Len(s) THEN <<>>
    ELSE LET r == RunLen(s, i, {"\n"})
         IN IF r >= 3 THEN <<"\n", "\n">> \o CollapseNewlines(s, i + r)
            ELSE <<s[i]>> \o CollapseNewlines(s, i + 1)

\* where $ matches under re.MULTILINE: at the end and before a newline
AtLineEnd(s, i) == i > Len(s) \/ s[i] = "\n"
\* where ^ matches under re.MULTILINE: at the start and after a newline
AtLineStart(s, i) == i = 1 \/ s[i - 1] = "\n"

\* length of the match of ^\s+|\s+$ at position i, 0 when it does not match
TrimMatch(s, i) ==
    LET r == RunLen(s, i, Space)
        ends == {l \in 1..r : AtLineEnd(s, i + l)}
    IN IF r >= 1 /\ AtLineStart(s, i) THEN r
       ELSE IF ends # {} THEN CHOOSE l \in ends : \A m \in ends : m <= l
       ELSE 0

\* re.sub(r'^\s+|\s+$', '', text, flags=re.MULTILINE)
RECURSIVE TrimLines(_, _)
TrimLines(s, i) ==
    IF i > Len(s) THEN <<>>
    ELSE LET m == TrimMatch(s, i)
         IN IF m > 0 THEN TrimLines(s, i + m)
            ELSE <<s[i]>> \o TrimLines(s, i + 1)

O_open == <<"<", "o", ":", "p">>
O_close == <<"<", "/", "o", ":", "p", ">">>
Mso == <<"m", "s", "o", "-">>

\* re.sub(r'<o:p[^>]*>', '', text)
RECURSIVE RemoveOpenOP(_, _)
RemoveOpenOP(s, i) ==
    IF i > Len(s) THEN <<>>
    ELSE IF StartsWith(s, i, O_open) /\ Find(s, i + Len(O_open), ">") # 0
         THEN RemoveOpenOP(s, Find(s, i + Len(O_open), ">") + 1)
         ELSE <<s[i]>> \o RemoveOpenOP(s, i + 1)

\* re.sub(r'mso-[^;]+;?', '', text)
RECURSIVE RemoveMso(_, _)
RemoveMso(s, i) ==
    IF i > Len(s) THEN <<>>
    ELSE LET a == i + Len(Mso)
             e == IF Find(s, a, ";") = 0 THEN Len(s) ELSE Find(s, a, ";")
         IN IF StartsWith(s, i, Mso) /\ a <= Len(s) /\ s[a] # ";"
            THEN RemoveMso(s, e + 1)
            ELSE <<s[i]>> \o RemoveMso(s, i + 1)

\* the text clean-up after soup.get_text()
PostProcess(text) ==
    LET t1 == CollapseBlanks(text, 1)
        t2 == CollapseNewlines(t1, 1)
        t3 == TrimLines(t2, 1)
        t4 == Replace(t3, 1, E_nbsp, <<" ">>)
        t5 == Replace(t4, 1, E_lt, <<"<">>)
        t6 == Replace(t5, 1, E_gt, <<">">>)
        t7 == Replace(t6, 1, E_amp, <<"&">>)
        t8 == Replace(t7, 1, E_quot, <<"\"">>)
        t9 == RemoveOpenOP(t8, 1)
        t10 == Replace(t9, 1, O_close, <<>>)
        t11 == RemoveMso(t10, 1)
    IN Strip(t11)

\* clean_html_content(html_content) for a string
clean_html_content(html_content) ==
    IF html_content = <<>> \/ Strip(html_content) = <<>> THEN <<>>
    ELSE PostProcess(SoupText(html_content, 1, 0))

\* ------------------------------------------------------------------------
\* Values crossing the tool boundary
\* ------------------------------------------------------------------------
\* a JSON value of an argument map; VAbsent is a key the map does not have
VStr(s) == [t |-> "str", s |-> s, n |-> 0]
VInt(n) == [t |-> "int", s |-> <<>>, n |-> n]
VNull == [t |-> "null", s |-> <<>>, n |-> 0]
VAbsent == [t |-> "absent", s |-> <<>>, n |-> 0]

\* Python truth value: "not v" is ~Truthy(v)
Truthy(v) ==
    CASE v.t = "str" -> v.s # <<>>
      [] v.t = "int" -> v.n # 0
      [] OTHER -> FALSE

NoExc == [type |-> "none", msg |-> "none"]
Exc(type, msg) == [type |-> type, msg |-> msg]

\* json.dumps(obj) of a dict: a text holding one JSON object
Json(obj) == [json |-> obj]
NoText == [nothing |-> TRUE]

\* ------------------------------------------------------------------------
\* State
\* ------------------------------------------------------------------------
VARIABLES
    now,            \* datetime.now().year: the calendar year of the run
    pin,            \* parse_ticket_id called directly: the identifier given
    ppc,            \* ... "ready" before the call, "done" after it
    pout,           \* ... what the call returned
    pc,             \* where the tool call in progress stands
    name,           \* handle_call_tool: the tool name
    arguments,      \* handle_call_tool: the argument map
    query_text,     \* search_similar_tickets: parameter
    n_results,      \* search_similar_tickets: parameter
    ticket_id,      \* get_ticket_by_id: parameter
    parsed,         \* get_ticket_by_id: (ticket_number, year)
    conn,           \* get_ticket_by_id: the connection: none, open, closed
    rows,           \* get_ticket_by_id: cursor.fetchall()
    ticket_entries, \* get_ticket_by_id: the list built by the row loop
    results,        \* search_similar_tickets: what collection.query returned
    exc,            \* the exception being raised, NoExc when none
    result,         \* the text the tool function returns
    response,       \* what handle_call_tool gave back to the transport
    events          \* the store and parser operations of this call, in order

VARIABLES
    nin,            \* clean_html_content called directly: variant and input
    npc,            \* ... "ready" before the call, "done" after it
    nout            \* ... what the call returned or raised

VARIABLES
    ipc,                  \* process_tickets: where the run stands
    tickets,              \* process_tickets: the records read from the input file
    t_idx,                \* process_tickets: records handled so far by the loop
    processed_documents,  \* process_tickets: the documents emitted so far
    emitted_from,         \* the index of the record each document came from
    chroma_data           \* process_tickets: the object written to the output file

VARIABLES
    lpc,            \* load_tickets_from_json: where the call stands
    data,           \* load_tickets_from_json: the documents of the JSON file
    documents,      \* load_tickets_from_json: the texts to insert
    metadatas,      \* load_tickets_from_json: their metadata
    ids,            \* load_tickets_from_json: their ids
    batch_start,    \* load_tickets_from_json: the loop variable i
    added,          \* the collection.add calls that succeeded, in order
    lexc,           \* load_tickets_from_json: the exception raised in the try
    printed         \* load_tickets_from_json: the error message printed

VARIABLES
    q_pc,           \* preprocess_text called directly: "ready", then "done"
    q_text,         \* ... the text given
    q_code,         \* ... the text after line 74, before the whitespace collapse
    q_swapped       \* the same with lines 71 and 74 in the other order

qvars == <<q_pc, q_text, q_code, q_swapped>>
nvars == <<nin, npc, nout>>
ivars == <<ipc, tickets, t_idx, processed_documents, emitted_from, chroma_data>>
lvars == <<lpc, data, documents, metadatas, ids, batch_start, added, lexc, printed>>
xvars == <<nvars, ivars, lvars, qvars>>
pvars == <<pin, ppc, pout>>
cvars == <<pc, name, arguments, query_text, n_results, ticket_id, parsed, conn,
           rows, ticket_entries, results, exc, result, response, events>>
vars == <<now, pin, ppc, pout, pc, name, arguments, query_text, n_results,
          ticket_id, parsed, conn, rows, ticket_entries, results, exc, result,
          response, events, nin, npc, nout, ipc, tickets, t_idx,
          processed_documents, emitted_from, chroma_data, lpc, data, documents,
          metadatas, ids, batch_start, added, lexc, printed, q_pc, q_text,
          q_code, q_swapped>>

CurrentYears == {2025, 2026}

NoParse == [ok |-> FALSE, number |-> <<>>, year |-> 0]

\* the tool call variables before any call
CallIdle ==
    /\ pc = "idle"
    /\ name = "none"
    /\ arguments = [query_text |-> VAbsent, n_results |-> VAbsent, ticket_id |-> VAbsent]
    /\ query_text = VAbsent
    /\ n_results = VAbsent
    /\ ticket_id = VAbsent
    /\ parsed = NoParse
    /\ conn = "none"
    /\ rows = <<>>
    /\ ticket_entries = <<>>
    /\ results = [ids |-> <<>>, distances |-> <<>>, metadatas |-> <<>>, documents |-> <<>>]
    /\ exc = NoExc
    /\ result = NoText
    /\ response = NoText
    /\ events = <<>>

NoOut == [raised |-> "none", text |-> <<>>]

\* no direct call of the normalizer
NormIdle ==
    /\ nin = [variant |-> "none", html |-> VAbsent, soup_raises |-> FALSE]
    /\ npc = "idle"
    /\ nout = NoOut

NoChromaData == [written |-> FALSE, total_documents |-> 0, documents |-> <<>>]

NoResult == [done |-> FALSE, text |-> <<>>]

\* no direct call of preprocess_text
PreIdle ==
    /\ q_pc = "idle"
    /\ q_text = <<>>
    /\ q_code = NoResult
    /\ q_swapped = NoResult

\* no run of process_tickets
IngestIdle ==
    /\ ipc = "idle"
    /\ tickets = <<>>
    /\ t_idx = 0
    /\ processed_documents = <<>>
    /\ emitted_from = <<>>
    /\ chroma_data = NoChromaData

\* no call of load_tickets_from_json
LoadIdle ==
    /\ lpc = "idle"
    /\ data = <<>>
    /\ documents = <<>>
    /\ metadatas = <<>>
    /\ ids = <<>>
    /\ batch_start = 0
    /\ added = <<>>
    /\ lexc = NoExc
    /\ printed = <<>>

\* ------------------------------------------------------------------------
\* parse_ticket_id on its own: identifiers drawn from bounded sets
\* ------------------------------------------------------------------------
\* all strings over S of length lo..hi
StringsOver(S, lo, hi) == UNION {[1..k -> S] : k \in lo..hi}

IdAlphabet == {"1", "7", "/", "-", "S", " "}
NumChars == {"3", "0"}
LetterChars == {"S", "c"}
YearChars == {"0", "2"}

Shape(s, form, n, letters, y) ==
    [s |-> s, form |-> form, n |-> n, letters |-> letters, y |-> y]

RawIds == {Shape(s, "raw", <<>>, <<>>, <<>>) : s \in StringsOver(IdAlphabet, 0, MaxLen)}

FormedIds ==
    LET N == StringsOver(NumChars, 1, MaxNumLen)
        L == StringsOver(LetterChars, 0, MaxLetters)
        Y == StringsOver(YearChars, YearDigits - 1, YearDigits + 1)
    IN {Shape(n \o <<"/">> \o l \o <<"-">> \o y, "n/LETTERS-y", n, l, y) :
            n \in N, l \in L, y \in Y}
       \cup {Shape(n \o <<"/">> \o l \o y, "n/LETTERSy", n, l, y) :
            n \in N, l \in L, y \in Y}
       \cup {Shape(n \o <<"/">> \o y, "n/y", n, <<>>, y) : n \in N, y \in Y}
       \cup {Shape(n \o <<"-">> \o y, "n-y", n, <<>>, y) : n \in N, y \in Y}
       \cup {Shape(n, "n", n, <<>>, <<>>) : n \in N}

InitParse ==
    /\ now \in CurrentYears
    /\ pin \in RawIds \cup FormedIds
    /\ ppc = "ready"
    /\ pout = NoParse
    /\ CallIdle
    /\ PreIdle
    /\ NormIdle
    /\ IngestIdle
    /\ LoadIdle

\* a direct call parse_ticket_id(pin.s)
ParseCall ==
    /\ ppc = "ready"
    /\ pout' = parse_ticket_id(pin.s, now)
    /\ ppc' = "done"
    /\ UNCHANGED <<now, pin>>
    /\ UNCHANGED <<cvars, xvars>>

NextParse == ParseCall

SpecParse == InitParse /\ [][NextParse]_vars

\* ------------------------------------------------------------------------
\* Properties of parse_ticket_id
\* ------------------------------------------------------------------------
\* the value of a four-digit string, digit by digit
FourDigitValue(y) ==
    1000 * DigitVal(y[1]) + 100 * DigitVal(y[2]) + 10 * DigitVal(y[3]) + DigitVal(y[4])

\* C5: for a digit string n and a four-digit string y, the identifiers
\* n/LETTERS-y, n/LETTERSy, n/y and n-y parse to (n, value of y), and n alone
\* parses to (n, current year).
Thm_C5_PatternForms ==
    ppc = "done" =>
        /\ (pin.form \in {"n/LETTERS-y", "n/LETTERSy", "n/y", "n-y"} /\ Len(pin.y) = 4)
              => pout = [ok |-> TRUE, number |-> pin.n, year |-> FourDigitValue(pin.y)]
        /\ pin.form = "n"
              => pout = [ok |-> TRUE, number |-> pin.n, year |-> now]

Wit_C5_LettersDashYear ==
    /\ ppc = "done"
    /\ pin.form = "n/LETTERS-y"
    /\ Len(pin.letters) = 2
    /\ Len(pin.n) = 2
    /\ pin.y = <<"2", "0", "2", "2">>
    /\ pout.ok /\ pout.year = 2022

HasDigit(s) == \E i \in 1..Len(s) : s[i] \in Digit

\* s[a..b] is the leftmost maximal run of digits of s
IsFirstDigitRun(s, a, b) ==
    /\ a <= b
    /\ \A i \in a..b : s[i] \in Digit
    /\ \A i \in 1..(a - 1) : s[i] \notin Digit
    /\ (b = Len(s) \/ s[b + 1] \notin Digit)

NoPatternMatches(s) ==
    Match1(s) = NoMatch /\ Match2(s) = NoMatch /\ Match3(s) = NoMatch /\ Match4(s) = NoMatch

\* C6: parse_ticket_id fails exactly when the trimmed identifier has no digit;
\* when no anchored pattern matches but a digit exists, the result is the
\* leftmost maximal digit run with the current year.
Thm_C6_FallbackDigits ==
    ppc = "done" =>
        LET s == Strip(pin.s)
        IN /\ (~pout.ok) <=> ~HasDigit(s)
           /\ (NoPatternMatches(s) /\ HasDigit(s)) =>
                 /\ pout.ok
                 /\ pout.year = now
                 /\ \E a \in 1..Len(s), b \in 1..Len(s) :
                       IsFirstDigitRun(s, a, b) /\ pout.number = SubSeq(s, a, b)

Wit_C6_TwoRuns ==
    /\ ppc = "done"
    /\ pin.s = <<"S", "1", "7", " ">>
    /\ pout = [ok |-> TRUE, number |-> <<"1", "7">>, year |-> now]

\* C7: every successful parse has a non-empty all-digit number and a year
\* in 1000..9999.
Cex_C7_FourDigitYear ==
    (ppc = "done" /\ pout.ok) =>
        /\ Len(pout.number) >= 1
        /\ AllIn(pout.number, Digit)
        /\ pout.year \in 1000..9999

\* ------------------------------------------------------------------------
\* The tool boundary: handle_call_tool  (server.py)
\* ------------------------------------------------------------------------
ToolNames == {"search_similar_tickets", "get_ticket_by_id"}
CallNames == ToolNames \cup {"delete_ticket"}

DefaultResults == 5     \* arguments.get("n_results", 5)
MinResults == 1
MaxResults == 20
PreviewLen == 300

QueryTexts ==
    {VAbsent, VNull, VInt(0), VInt(5), VStr(<<>>), VStr(<<" ", "\t">>),
     VStr(<<"v", "p", "n">>), VStr(<<" ", "v", "p", "n", " ">>)}

NResultsValues ==
    {VAbsent, VNull, VStr(<<"5">>), VInt(-1), VInt(0), VInt(1), VInt(2),
     VInt(5), VInt(20), VInt(21)}

TicketIdValues ==
    {VAbsent, VNull, VInt(0), VInt(3906), VStr(<<>>), VStr(<<" ", " ">>),
     VStr(<<"a", "b", "c">>), VStr(<<"3", "9", "0", "6">>),
     VStr(<<" ", "1", "2", "/", "S", "P", "C", "-", "2", "0", "2", "4">>),
     VStr(<<"7", "-", "2", "0", "2", "3">>)}

ArgumentMaps ==
    {[query_text |-> q, n_results |-> n, ticket_id |-> VAbsent] :
        q \in QueryTexts, n \in NResultsValues}
    \cup {[query_text |-> VAbsent, n_results |-> VAbsent, ticket_id |-> t] :
        t \in TicketIdValues}

\* the exception classes the model raises; all derive from Exception
ExceptionClasses == {"ValueError", "KeyError", "TypeError", "AttributeError", "Exception"}

\* "except Exception" of handle_call_tool
HctCatchesValueErrorOnly(e) == e.type = "ValueError"

HctCatches(e) == e.type \in ExceptionClasses

\* the transport calls handle_call_tool(name, arguments)
Call(nm, args) ==
    /\ pc = "idle"
    /\ pc' = "dispatch"
    /\ name' = nm
    /\ arguments' = args
    /\ UNCHANGED <<query_text, n_results, ticket_id, parsed, conn, rows,
                   ticket_entries, results, exc, result, response, events>>
    /\ UNCHANGED <<now, pvars, xvars>>

\* the tool_handlers lookup and the evaluation of the chosen lambda's arguments
Dispatch ==
    /\ pc = "dispatch"
    /\ IF name \notin ToolNames
       THEN /\ exc' = Exc("ValueError", "Tool sconosciuto")
            /\ pc' = "hct_raise"
            /\ UNCHANGED <<query_text, n_results, ticket_id>>
       ELSE IF name = "search_similar_tickets"
       THEN IF arguments.query_text = VAbsent
            THEN /\ exc' = Exc("KeyError", "query_text")
                 /\ pc' = "hct_raise"
                 /\ UNCHANGED <<query_text, n_results, ticket_id>>
            ELSE /\ query_text' = arguments.query_text
                 /\ n_results' = IF arguments.n_results = VAbsent
                                 THEN VInt(DefaultResults)
                                 ELSE arguments.n_results
                 /\ pc' = "s_validate"
                 /\ UNCHANGED <<exc, ticket_id>>
       ELSE IF arguments.ticket_id = VAbsent
            THEN /\ exc' = Exc("KeyError", "ticket_id")
                 /\ pc' = "hct_raise"
                 /\ UNCHANGED <<query_text, n_results, ticket_id>>
            ELSE /\ ticket_id' = arguments.ticket_id
                 /\ pc' = "g_validate"
                 /\ UNCHANGED <<exc, query_text, n_results>>
    /\ UNCHANGED <<name, arguments, parsed, conn, rows, ticket_entries, results,
                   result, response, events>>
    /\ UNCHANGED <<now, pvars, xvars>>

\* return [TextContent(type="text", text=result)]
HctReturn ==
    /\ pc = "hct_return"
    /\ response' = [type |-> "text", text |-> result]
    /\ pc' = "returned"
    /\ UNCHANGED <<name, arguments, query_text, n_results, ticket_id, parsed, conn,
                   rows, ticket_entries, results, exc, result, events>>
    /\ UNCHANGED <<now, pvars, xvars>>

\* an exception reaches the try of handle_call_tool: caught and turned into
\* the error payload, or passed on to the transport
HctExcept ==
    /\ pc = "hct_raise"
    /\ IF HctCatches(exc)
       THEN /\ response' = [type |-> "text",
                            text |-> Json([error |-> exc.msg, tool |-> name,
                                           arguments |-> arguments])]
            /\ exc' = NoExc
       ELSE /\ response' = [type |-> "raised", text |-> NoText]
            /\ UNCHANGED exc
    /\ pc' = "returned"
    /\ UNCHANGED <<name, arguments, query_text, n_results, ticket_id, parsed, conn,
                   rows, ticket_entries, results, result, events>>
    /\ UNCHANGED <<now, pvars, xvars>>

\* the transport has taken the response; the handler's frame is gone
Reset ==
    /\ pc = "returned"
    /\ pc' = "idle"
    /\ name' = "none"
    /\ arguments' = [query_text |-> VAbsent, n_results |-> VAbsent, ticket_id |-> VAbsent]
    /\ query_text' = VAbsent
    /\ n_results' = VAbsent
    /\ ticket_id' = VAbsent
    /\ parsed' = NoParse
    /\ conn' = "none"
    /\ rows' = <<>>
    /\ ticket_entries' = <<>>
    /\ results' = [ids |-> <<>>, distances |-> <<>>, metadatas |-> <<>>, documents |-> <<>>]
    /\ exc' = NoExc
    /\ result' = NoText
    /\ response' = NoText
    /\ events' = <<>>
    /\ UNCHANGED <<now, pvars, xvars>>

\* ------------------------------------------------------------------------
\* search_similar_tickets  (tools/search.py)
\* ------------------------------------------------------------------------
\* "except Exception" of search_similar_tickets
SearchCatches(e) == e.type \in ExceptionClasses

\* the input validation: the exception it raises, NoExc when it passes
ValidateQueryNoRange(q, n) ==
    IF ~Truthy(q) THEN Exc("ValueError", "Il testo di ricerca non puo essere vuoto")
    ELSE IF q.t # "str" THEN Exc("AttributeError", "strip")
    ELSE IF Strip(q.s) = <<>>
         THEN Exc("ValueError", "Il testo di ricerca non puo essere vuoto")
    ELSE IF n.t # "int" THEN Exc("TypeError", "<")
    ELSE NoExc

ValidateQuery(q, n) ==
    IF ~Truthy(q) THEN Exc("ValueError", "Il testo di ricerca non puo essere vuoto")
    ELSE IF q.t # "str" THEN Exc("AttributeError", "strip")
    ELSE IF Strip(q.s) = <<>>
         THEN Exc("ValueError", "Il testo di ricerca non puo essere vuoto")
    ELSE IF n.t # "int" THEN Exc("TypeError", "<")
    ELSE IF n.n < MinResults \/ n.n > MaxResults
         THEN Exc("ValueError", "Il numero di risultati deve essere tra 1 e 20")
    ELSE NoExc

\* metadata maps of stored documents; NoneMeta is a missing (None) metadata
NoneMeta == [none |-> TRUE]
MetaGet(m, k, default) == IF k \in DOMAIN m THEN m[k] ELSE default

\* one stored document as the store reports it; distances in 1/10000
Hit(id, d, m, doc) == [id |-> id, distance |-> d, metadata |-> m, document |-> doc]

\* a document of n characters, the last one different from the others
LongDocument(n) == [k \in 1..n |-> IF k = n THEN "z" ELSE "x"]

\* the collection is created with "hnsw:space": "cosine", whose distance is
\* 1 - cos and lies in 0..2
HitSet ==
    {Hit("3906/SPC-2024", 0, [title |-> "t1", company |-> "c1"], <<"a", "b">>),
     Hit("12/SPC-2023", 2345, [metadata_title |-> "mt2", title |-> "t2"], <<"c">>),
     Hit("7/SPC-2024", 10000, [metadata_original_id |-> "7"], <<>>),
     Hit("8/SPC-2024", 4000, NoneMeta, <<"d">>),
     Hit("9/SPC-2024", 15000, [title |-> "t9"], LongDocument(PreviewLen + 1)),
     Hit("10/SPC-2024", 9996, [title |-> "t10"], LongDocument(PreviewLen))}

SeqsOver(S, lo, hi) == UNION {[1..k -> S] : k \in lo..hi}

Min(a, b) == IF a <= b THEN a ELSE b

\* the result of collection.query: four aligned lists (for the one query text)
QueryResult(hits) ==
    [ids |-> [k \in 1..Len(hits) |-> hits[k].id],
     distances |-> [k \in 1..Len(hits) |-> hits[k].distance],
     metadatas |-> [k \in 1..Len(hits) |-> hits[k].metadata],
     documents |-> [k \in 1..Len(hits) |-> hits[k].document]]

NoResults == QueryResult(<<>>)

\* number of tuples zip(ids, distances, metadatas, documents) yields
ZipLen(res) ==
    Min(Min(Len(res.ids), Len(res.distances)),
        Min(Len(res.metadatas), Len(res.documents)))

\* round(x, 3) of a value in 1/10000, in 1/1000, ties to even
Round3(x) ==
    LET q == x \div 10
        r == x % 10
    IN IF r > 5 \/ (r = 5 /\ q % 2 = 1) THEN q + 1 ELSE q

\* document[:300] + "..." if len(document) > 300 else document
PreviewFromLimit(document) ==
    IF Len(document) >= PreviewLen
    THEN SubSeq(document, 1, PreviewLen - 1) \o <<".", ".", ".">>
    ELSE document

Preview(document) ==
    IF Len(document) > PreviewLen
    THEN SubSeq(document, 1, PreviewLen) \o <<".", ".", ".">>
    ELSE document

\* the dict built for the i-th tuple of the zip (i counted from 1)
formatted_result_rank0(res, i) ==
    LET metadata == res.metadatas[i]
    IN [rank |-> i - 1,
        ticket_id |-> res.ids[i],
        similarity_score |-> Round3(10000 - res.distances[i]),
        title |-> MetaGet(metadata, "metadata_title", MetaGet(metadata, "title", "N/A")),
        company |-> MetaGet(metadata, "metadata_company", MetaGet(metadata, "company", "N/A")),
        date |-> MetaGet(metadata, "metadata_date", MetaGet(metadata, "date", "N/A")),
        original_id |-> MetaGet(metadata, "metadata_original_id",
                                MetaGet(metadata, "original_id", "N/A")),
        content_preview |-> Preview(res.documents[i]),
        metadata |-> metadata]

formatted_result(res, i) ==
    LET metadata == res.metadatas[i]
    IN [rank |-> i,
        ticket_id |-> res.ids[i],
        similarity_score |-> Round3(10000 - res.distances[i]),
        title |-> MetaGet(metadata, "metadata_title", MetaGet(metadata, "title", "N/A")),
        company |-> MetaGet(metadata, "metadata_company", MetaGet(metadata, "company", "N/A")),
        date |-> MetaGet(metadata, "metadata_date", MetaGet(metadata, "date", "N/A")),
        original_id |-> MetaGet(metadata, "metadata_original_id",
                                MetaGet(metadata, "original_id", "N/A")),
        content_preview |-> Preview(res.documents[i]),
        metadata |-> metadata]

\* the validation at the head of the try
SValidate ==
    /\ pc = "s_validate"
    /\ exc' = ValidateQuery(query_text, n_results)
    /\ pc' = IF exc' = NoExc THEN "s_collection" ELSE "s_raise"
    /\ UNCHANGED <<name, arguments, query_text, n_results, ticket_id, parsed, conn,
                   rows, ticket_entries, results, result, response, events>>
    /\ UNCHANGED <<now, pvars, xvars>>

\* collection = get_collection(): the store may fail
SGetCollection ==
    /\ pc = "s_collection"
    /\ events' = Append(events, "get_collection")
    /\ \E ok \in BOOLEAN :
          IF ok THEN pc' = "s_query" /\ UNCHANGED exc
          ELSE pc' = "s_raise" /\ exc' = Exc("Exception", "collection")
    /\ UNCHANGED <<name, arguments, query_text, n_results, ticket_id, parsed, conn,
                   rows, ticket_entries, results, result, response>>
    /\ UNCHANGED <<now, pvars, xvars>>

\* results = collection.query(query_texts=[...], n_results=n_results): the
\* store fails, or returns at most n_results documents
SQuery ==
    /\ pc = "s_query"
    /\ events' = Append(events, "query")
    /\ \/ /\ pc' = "s_raise"
          /\ exc' = Exc("Exception", "query")
          /\ UNCHANGED results
       \/ \E hits \in SeqsOver(HitSet, 0, Min(n_results.n, MaxDocs)) :
             /\ results' = QueryResult(hits)
             /\ pc' = "s_format"
             /\ UNCHANGED exc
    /\ UNCHANGED <<name, arguments, query_text, n_results, ticket_id, parsed, conn,
                   rows, ticket_entries, result, response>>
    /\ UNCHANGED <<now, pvars, xvars>>

\* the empty answer, or the loop over the zip and the final json.dumps
SFormat ==
    /\ pc = "s_format"
    /\ IF results.ids = <<>>
       THEN /\ result' = Json([status |-> "success",
                               query |-> query_text,
                               results_count |-> 0,
                               results |-> <<>>,
                               message |-> "Nessun ticket trovato per la query specificata"])
            /\ pc' = "hct_return"
            /\ UNCHANGED exc
       ELSE IF \E i \in 1..ZipLen(results) : results.metadatas[i] = NoneMeta
       THEN /\ exc' = Exc("AttributeError", "get")
            /\ pc' = "s_raise"
            /\ UNCHANGED result
       ELSE LET formatted_results ==
                    [i \in 1..ZipLen(results) |-> formatted_result(results, i)]
            IN /\ result' = Json([status |-> "success",
                                  query |-> query_text,
                                  results_count |-> Len(formatted_results),
                                  results |-> formatted_results])
               /\ pc' = "hct_return"
               /\ UNCHANGED exc
    /\ UNCHANGED <<name, arguments, query_text, n_results, ticket_id, parsed, conn,
                   rows, ticket_entries, results, response, events>>
    /\ UNCHANGED <<now, pvars, xvars>>

\* an exception reaches the try of search_similar_tickets
SExcept ==
    /\ pc = "s_raise"
    /\ IF SearchCatches(exc)
       THEN /\ result' = Json([status |-> "error",
                               query |-> query_text,
                               error |-> exc.msg,
                               error_type |-> exc.type])
            /\ exc' = NoExc
            /\ pc' = "hct_return"
       ELSE /\ pc' = "hct_raise"
            /\ UNCHANGED <<exc, result>>
    /\ UNCHANGED <<name, arguments, query_text, n_results, ticket_id, parsed, conn,
                   rows, ticket_entries, results, response, events>>
    /\ UNCHANGED <<now, pvars, xvars>>

\* ------------------------------------------------------------------------
\* get_ticket_by_id  (tools/get_ticket.py, tools/ticket_cleaner.py)
\* ------------------------------------------------------------------------
\* "except Exception" of get_ticket_by_id
TicketCatchesBaseException(e) == TRUE

TicketCatches(e) == e.type \in ExceptionClasses

\* the input validation: the exception it raises, NoExc when it passes
ValidateTicketIdNoStrip(t) ==
    IF ~Truthy(t) THEN Exc("ValueError", "L'ID del ticket non puo essere vuoto")
    ELSE IF t.t # "str" THEN Exc("AttributeError", "strip")
    ELSE NoExc

ValidateTicketId(t) ==
    IF ~Truthy(t) THEN Exc("ValueError", "L'ID del ticket non puo essere vuoto")
    ELSE IF t.t # "str" THEN Exc("AttributeError", "strip")
    ELSE IF Strip(t.s) = <<>>
         THEN Exc("ValueError", "L'ID del ticket non puo essere vuoto")
    ELSE NoExc

\* one row of the cursor: the body is a string, NULL, or (any other column
\* type) a value without strip(); the date is a date, NULL or a value without
\* isoformat(); a bytes column is one json.dumps cannot serialize
Row(body, date, num, title) ==
    [dt_testo |-> body, dt__data |-> date, ttnumtic |-> num, cotitle |-> title]

B_plain == <<"a", " ", " ", "b">>
B_escaped == <<"&", "l", "t", ";", "b", "&", "g", "t", ";", "x">>
B_paras == <<"<", "p", ">", "a", "<", "/", "p", ">", "<", "p", ">", "b", "<", "/", "p", ">">>

RowSet ==
    {Row(VStr(B_plain), "date", "Decimal", "str"),
     Row(VStr(B_escaped), "date", "int", "str"),
     Row(VStr(B_paras), "date", "int", "str"),
     Row(VNull, "none", "int", "str"),
     Row(VInt(7), "date", "int", "str"),
     Row(VStr(B_plain), "text", "int", "str"),
     Row(VStr(B_plain), "date", "int", "bytes")}

\* entry['dt__data'].isoformat() raises for this row
IsoformatRaises(row) == row.dt__data = "text"

\* entry = dict(row), the isoformat of the date, convert_decimals(entry)
ConvertRow(row) ==
    [dt_testo |-> row.dt_testo,
     dt__data |-> IF row.dt__data = "date" THEN "iso" ELSE row.dt__data,
     ttnumtic |-> IF row.ttnumtic = "Decimal" THEN "float" ELSE row.ttnumtic,
     cotitle |-> row.cotitle]

\* clean_html_content(v) raises: v.strip() on a value that is not a string
CleanRaises(v) == Truthy(v) /\ v.t # "str"

\* format_ticket_data raises on this list
FormatRaises(entries) == \E k \in 1..Len(entries) : CleanRaises(entries[k].dt_testo)

\* format_ticket_data(ticket_data): every entry copied, its body cleaned
format_ticket_data(ticket_data) ==
    [k \in 1..Len(ticket_data) |->
        IF Truthy(ticket_data[k].dt_testo)
        THEN [ticket_data[k] EXCEPT !.dt_testo = VStr(clean_html_content(@.s))]
        ELSE ticket_data[k]]

\* json.dumps can serialize the entry
Serializable(entry) ==
    /\ entry.dt__data \in {"iso", "none"}
    /\ entry.ttnumtic \in {"float", "int"}
    /\ entry.cotitle = "str"

\* "if not rows"
NotFoundAlsoOne(rs) == Len(rs) <= 1

NotFound(rs) == rs = <<>>

\* the finally clause closes the connection whatever the try block did
FinallyClosesOnSuccess(e) == e = NoExc

FinallyCloses(e) == TRUE

GValidate ==
    /\ pc = "g_validate"
    /\ exc' = ValidateTicketId(ticket_id)
    /\ pc' = IF exc' = NoExc THEN "g_parse" ELSE "g_raise"
    /\ UNCHANGED <<name, arguments, query_text, n_results, ticket_id, parsed, conn,
                   rows, ticket_entries, results, result, response, events>>
    /\ UNCHANGED <<now, pvars, xvars>>

\* ticket_number, year = parse_ticket_id(ticket_id.strip())
GParse ==
    /\ pc = "g_parse"
    /\ events' = Append(events, "parse_ticket_id")
    /\ parsed' = parse_ticket_id(Strip(ticket_id.s), now)
    /\ IF parsed'.ok THEN pc' = "g_connect" /\ UNCHANGED exc
       ELSE /\ pc' = "g_raise"
            /\ exc' = Exc("ValueError", "Formato ticket ID non riconosciuto")
    /\ UNCHANGED <<name, arguments, query_text, n_results, ticket_id, conn,
                   rows, ticket_entries, results, result, response>>
    /\ UNCHANGED <<now, pvars, xvars>>

\* conn = get_postgres_connection(): connects, or raises
GConnect ==
    /\ pc = "g_connect"
    /\ events' = Append(events, "connect")
    /\ \E ok \in BOOLEAN :
          IF ok THEN conn' = "open" /\ pc' = "g_execute" /\ UNCHANGED exc
          ELSE /\ pc' = "g_raise"
               /\ exc' = Exc("Exception", "connect")
               /\ UNCHANGED conn
    /\ UNCHANGED <<name, arguments, query_text, n_results, ticket_id, parsed,
                   rows, ticket_entries, results, result, response>>
    /\ UNCHANGED <<now, pvars, xvars>>

\* cursor.execute(query, ...), rows = cursor.fetchall(), cursor.close()
GExecute ==
    /\ pc = "g_execute"
    /\ \/ /\ events' = Append(events, "execute")
          /\ pc' = "g_finally"
          /\ exc' = Exc("Exception", "execute")
          /\ UNCHANGED rows
       \/ \E rs \in SeqsOver(RowSet, 0, MaxRows) :
             /\ events' = Append(Append(events, "execute"), "fetchall")
             /\ rows' = rs
             /\ pc' = "g_rows"
             /\ UNCHANGED exc
    /\ UNCHANGED <<name, arguments, query_text, n_results, ticket_id, parsed, conn,
                   ticket_entries, results, result, response>>
    /\ UNCHANGED <<now, pvars, xvars>>

\* no row: the not-found answer is returned from inside the try
GNotFound ==
    /\ pc = "g_rows"
    /\ NotFound(rows)
    /\ result' = Json([status |-> "error",
                       ticket_id |-> ticket_id,
                       parsed_number |-> parsed.number,
                       parsed_year |-> parsed.year,
                       error |-> "Ticket non trovato",
                       error_code |-> "TICKET_NOT_FOUND"])
    /\ pc' = "g_finally"
    /\ UNCHANGED <<name, arguments, query_text, n_results, ticket_id, parsed, conn,
                   rows, ticket_entries, results, exc, response, events>>
    /\ UNCHANGED <<now, pvars, xvars>>

\* one turn of "for row in rows": the row is converted and appended, then the
\* whole list built so far goes through format_ticket_data
GLoop ==
    /\ pc = "g_rows"
    /\ ~NotFound(rows)
    /\ Len(ticket_entries) < Len(rows)
    /\ LET row == rows[Len(ticket_entries) + 1]
           appended == Append(ticket_entries, ConvertRow(row))
       IN IF IsoformatRaises(row)
          THEN /\ exc' = Exc("AttributeError", "isoformat")
               /\ pc' = "g_finally"
               /\ UNCHANGED ticket_entries
          ELSE IF FormatRaises(appended)
          THEN /\ exc' = Exc("AttributeError", "strip")
               /\ pc' = "g_finally"
               /\ ticket_entries' = appended
          ELSE /\ ticket_entries' = format_ticket_data(appended)
               /\ UNCHANGED <<pc, exc>>
    /\ UNCHANGED <<name, arguments, query_text, n_results, ticket_id, parsed, conn,
                   rows, results, result, response, events>>
    /\ UNCHANGED <<now, pvars, xvars>>

\* after the loop: the response dict, convert_decimals, json.dumps
GBuild ==
    /\ pc = "g_rows"
    /\ ~NotFound(rows)
    /\ Len(ticket_entries) = Len(rows)
    /\ IF \A k \in 1..Len(ticket_entries) : Serializable(ticket_entries[k])
       THEN /\ result' = Json([status |-> "success",
                               ticket_id |-> ticket_id,
                               parsed_number |-> parsed.number,
                               parsed_year |-> parsed.year,
                               entries_count |-> Len(ticket_entries),
                               ticket_data |-> ticket_entries])
            /\ UNCHANGED exc
       ELSE /\ exc' = Exc("TypeError", "not JSON serializable")
            /\ UNCHANGED result
    /\ pc' = "g_finally"
    /\ UNCHANGED <<name, arguments, query_text, n_results, ticket_id, parsed, conn,
                   rows, ticket_entries, results, response, events>>
    /\ UNCHANGED <<now, pvars, xvars>>

\* finally: conn.close(); then the pending return or exception goes on
GFinally ==
    /\ pc = "g_finally"
    /\ IF FinallyCloses(exc)
       THEN conn' = "closed" /\ events' = Append(events, "close")
       ELSE UNCHANGED <<conn, events>>
    /\ pc' = IF exc = NoExc THEN "hct_return" ELSE "g_raise"
    /\ UNCHANGED <<name, arguments, query_text, n_results, ticket_id, parsed,
                   rows, ticket_entries, results, exc, result, response>>
    /\ UNCHANGED <<now, pvars, xvars>>

\* an exception reaches the outer try of get_ticket_by_id
GExcept ==
    /\ pc = "g_raise"
    /\ IF TicketCatches(exc)
       THEN /\ result' = Json([status |-> "error",
                               ticket_id |-> ticket_id,
                               error |-> exc.msg,
                               error_type |-> exc.type])
            /\ exc' = NoExc
            /\ pc' = "hct_return"
       ELSE /\ pc' = "hct_raise"
            /\ UNCHANGED <<exc, result>>
    /\ UNCHANGED <<name, arguments, query_text, n_results, ticket_id, parsed, conn,
                   rows, ticket_entries, results, response, events>>
    /\ UNCHANGED <<now, pvars, xvars>>

\* ------------------------------------------------------------------------
\* The server: one tool call after another
\* ------------------------------------------------------------------------
Init ==
    /\ now \in CurrentYears
    /\ pin = Shape(<<>>, "raw", <<>>, <<>>, <<>>)
    /\ ppc = "ready"
    /\ pout = NoParse
    /\ CallIdle
    /\ PreIdle
    /\ NormIdle
    /\ IngestIdle
    /\ LoadIdle

Next ==
    \/ \E nm \in CallNames, args \in ArgumentMaps : Call(nm, args)
    \/ Dispatch
    \/ SValidate
    \/ SGetCollection
    \/ SQuery
    \/ SFormat
    \/ SExcept
    \/ GValidate
    \/ GParse
    \/ GConnect
    \/ GExecute
    \/ GNotFound
    \/ GLoop
    \/ GBuild
    \/ GFinally
    \/ GExcept
    \/ HctReturn
    \/ HctExcept
    \/ Reset

Spec == Init /\ [][Next]_vars

\* ------------------------------------------------------------------------
\* Properties of the tool calls
\* ------------------------------------------------------------------------
\* the tool function has produced its text and control is back in, or past,
\* handle_call_tool
ToolDone == pc \in {"hct_return", "returned"}

HasJson(t) == "json" \in DOMAIN t

Happened(ev) == \E k \in 1..Len(events) : events[k] = ev

\* C1: every call of handle_call_tool ends with a text payload holding a
\* JSON object; no exception leaves the handler.
Thm_C1_AlwaysJsonPayload ==
    pc = "returned" =>
        /\ response.type = "text"
        /\ HasJson(response.text)
        /\ exc = NoExc

Wit_C1_MissingArgument ==
    /\ pc = "returned"
    /\ name = "get_ticket_by_id"
    /\ arguments.ticket_id = VAbsent
    /\ response.type = "text"
    /\ HasJson(response.text)
    /\ response.text.json.tool = "get_ticket_by_id"

\* C2: a connection acquired by get_ticket_by_id is open only inside the
\* inner try block; it is closed before control reaches the except clause
\* or the caller, whatever the block did.
Thm_C2_ConnectionReleased ==
    /\ conn = "open" => pc \in {"g_execute", "g_rows", "g_finally"}
    /\ (conn # "none" /\ pc \in {"g_raise", "hct_return", "hct_raise", "returned"})
          => (conn = "closed" /\ Happened("close"))

Wit_C2_ClosedAfterFailure ==
    /\ pc = "returned"
    /\ conn = "closed"
    /\ Len(rows) = 2
    /\ HasJson(response.text)
    /\ response.text.json.status = "error"
    /\ response.text.json.error = "isoformat"

\* C3: a search whose text is empty or blank, or whose n_results is outside
\* 1..20, ends in a ValueError answer without get_collection or query having
\* been called.
InvalidQuery ==
    /\ name = "search_similar_tickets"
    /\ query_text.t = "str"
    /\ \/ Strip(query_text.s) = <<>>
       \/ (n_results.t = "int" /\ n_results.n \notin 1..20)

Thm_C3_InvalidQueryBeforeStore ==
    InvalidQuery =>
        /\ events = <<>>
        /\ pc \notin {"s_collection", "s_query", "s_format"}
        /\ ToolDone =>
              /\ HasJson(result)
              /\ result.json.status = "error"
              /\ result.json.error_type = "ValueError"

Wit_C3_TooManyResults ==
    /\ pc = "returned"
    /\ InvalidQuery
    /\ n_results = VInt(21)
    /\ Strip(query_text.s) # <<>>
    /\ response.text.json.error_type = "ValueError"

\* C4: get_ticket_by_id with an empty or blank identifier ends in the
\* empty-identifier ValueError and parse_ticket_id is not called.
EmptyIdentifier ==
    /\ name = "get_ticket_by_id"
    /\ ticket_id.t = "str"
    /\ Strip(ticket_id.s) = <<>>

Thm_C4_EmptyIdentifierBeforeParse ==
    EmptyIdentifier =>
        /\ ~Happened("parse_ticket_id")
        /\ pc # "g_parse"
        /\ ToolDone =>
              /\ HasJson(result)
              /\ result.json.error_type = "ValueError"
              /\ result.json.error = "L'ID del ticket non puo essere vuoto"

Wit_C4_BlankIdentifier ==
    /\ pc = "returned"
    /\ EmptyIdentifier
    /\ ticket_id.s = <<" ", " ">>
    /\ response.text.json.error = "L'ID del ticket non puo essere vuoto"

\* the display-mode normalizer applied once to a row's body
CleanedOnce(body) ==
    IF Truthy(body) THEN VStr(clean_html_content(body.s)) ELSE body

\* C8: a successful lookup of k >= 1 rows returns entries_count = k and one
\* entry per row, in order, whose body is the normalizer applied once to the
\* row's body.
Cex_C8_SingleNormalization ==
    (ToolDone /\ name = "get_ticket_by_id" /\ HasJson(result)
        /\ result.json.status = "success") =>
        /\ result.json.entries_count = Len(rows)
        /\ Len(result.json.ticket_data) = Len(rows)
        /\ \A k \in 1..Len(rows) :
              result.json.ticket_data[k].dt_testo = CleanedOnce(rows[k].dt_testo)

\* C9: the TICKET_NOT_FOUND answer is returned, with the parsed number and
\* year, exactly when the query ran and gave no row; it is not the generic
\* error shape.
IsNotFound(t) == HasJson(t) /\ "error_code" \in DOMAIN t.json

Thm_C9_NotFoundIffNoRows ==
    (ToolDone /\ name = "get_ticket_by_id") =>
        /\ IsNotFound(result) <=> (Happened("fetchall") /\ rows = <<>>)
        /\ IsNotFound(result) =>
              /\ parsed.ok
              /\ result.json.status = "error"
              /\ result.json.error_code = "TICKET_NOT_FOUND"
              /\ result.json.parsed_number = parsed.number
              /\ result.json.parsed_year = parsed.year
              /\ "error_type" \notin DOMAIN result.json
              /\ pc = "returned" => response = [type |-> "text", text |-> result]

Wit_C9_NoRows ==
    /\ pc = "returned"
    /\ IsNotFound(result)
    /\ parsed.number = <<"1", "2">>
    /\ parsed.year = 2024
    /\ conn = "closed"

\* C10: a successful search reports as results_count the number of documents
\* the store returned, never more than n_results, ranked 1..results_count in
\* the store's order.
SearchSucceeded ==
    /\ ToolDone
    /\ name = "search_similar_tickets"
    /\ HasJson(result)
    /\ result.json.status = "success"

Thm_C10_RankedInStoreOrder ==
    SearchSucceeded =>
        /\ result.json.results_count = Len(results.ids)
        /\ result.json.results_count <= n_results.n
        /\ Len(result.json.results) = result.json.results_count
        /\ \A k \in 1..Len(results.ids) :
              /\ result.json.results[k].rank = k
              /\ result.json.results[k].ticket_id = results.ids[k]
              /\ result.json.results[k].metadata = results.metadatas[k]

Wit_C10_ThreeOfFive ==
    /\ pc = "returned"
    /\ SearchSucceeded
    /\ n_results = VInt(5)
    /\ result.json.results_count = 3
    /\ result.json.results[3].rank = 3
    /\ results.ids[1] # results.ids[3]

\* C11: every similarity_score is 1 - distance rounded to 3 decimals and lies
\* in [0,1] (scores in 1/1000, distances in 1/10000).
Cex_C11_ScoreInUnitInterval ==
    SearchSucceeded =>
        \A k \in 1..Len(results.ids) :
            /\ result.json.results[k].similarity_score = Round3(10000 - results.distances[k])
            /\ result.json.results[k].similarity_score \in 0..1000

\* C12: content_preview is the document itself up to 300 characters, and
\* its first 300 characters followed by "..." beyond.
Thm_C12_PreviewCut ==
    SearchSucceeded =>
        \A k \in 1..Len(results.ids) :
            LET doc == results.documents[k]
                pv == result.json.results[k].content_preview
            IN /\ Len(doc) <= 300 => pv = doc
               /\ Len(doc) > 300 =>
                     /\ Len(pv) = 303
                     /\ \A j \in 1..300 : pv[j] = doc[j]
                     /\ \A j \in 301..303 : pv[j] = "."

Wit_C12_BothSidesOfLimit ==
    /\ pc = "returned"
    /\ SearchSucceeded
    /\ Len(results.ids) = 2
    /\ Len(results.documents[1]) = 301
    /\ Len(results.documents[2]) = 300
    /\ Len(result.json.results[1].content_preview) = 303
    /\ result.json.results[2].content_preview[300] = "z"

\* ------------------------------------------------------------------------
\* clean_html_content, both variants, called on any value
\* (PY_Scripts/clean_html.py and tools/ticket_cleaner.py)
\* ------------------------------------------------------------------------
MaxTokens == 3     \* most tokens in a markup given to the normalizer

Out(text) == [raised |-> "none", text |-> text]
Raised(type) == [raised |-> type, text |-> <<>>]

\* re.sub(r'\s+', ' ', text)
RECURSIVE CollapseSpace(_, _)
CollapseSpace(s, i) ==
    IF i > Len(s) THEN <<>>
    ELSE IF s[i] \in Space THEN <<" ">> \o CollapseSpace(s, i + RunLen(s, i, Space))
    ELSE <<s[i]>> \o CollapseSpace(s, i + 1)

\* the last newline among s[i..j], 0 when there is none
RECURSIVE LastNewline(_, _, _)
LastNewline(s, i, j) ==
    IF j < i THEN 0 ELSE IF s[j] = "\n" THEN j ELSE LastNewline(s, i, j - 1)

\* re.sub(r'\n\s*\n', '\n\n', text)
RECURSIVE CollapseBlankLines(_, _)
CollapseBlankLines(s, i) ==
    IF i > Len(s) THEN <<>>
    ELSE LET e == IF s[i] = "\n"
                  THEN LastNewline(s, i + 1, i + RunLen(s, i + 1, Space))
                  ELSE 0
         IN IF e # 0 THEN <<"\n", "\n">> \o CollapseBlankLines(s, e + 1)
            ELSE <<s[i]>> \o CollapseBlankLines(s, i + 1)

\* re.sub(r'<[^>]+>', '', html_content)
RECURSIVE StripTags(_, _)
StripTags(s, i) ==
    IF i > Len(s) THEN <<>>
    ELSE LET j == Find(s, i + 1, ">")
         IN IF s[i] = "<" /\ j > i + 1 THEN StripTags(s, j + 1)
            ELSE <<s[i]>> \o StripTags(s, i + 1)

\* the except branch of the display variant
Fallback(html_content) == Strip(CollapseSpace(StripTags(html_content, 1), 1))

\* "except Exception as e" of the display variant
DisplayCatches(e) == e \in ExceptionClasses

\* the display variant on any value; soup_raises: BeautifulSoup or one of
\* the tree operations raises on this markup
display_clean_html_content(v, soup_raises) ==
    IF ~Truthy(v) THEN Out(<<>>)
    ELSE IF v.t # "str" THEN Raised("AttributeError")
    ELSE IF Strip(v.s) = <<>> THEN Out(<<>>)
    ELSE IF soup_raises
         THEN (IF DisplayCatches("Exception") THEN Out(Fallback(v.s))
               ELSE Raised("Exception"))
    ELSE Out(clean_html_content(v.s))

\* BeautifulSoup(html, 'html.parser') followed by soup.get_text(): the tags
\* are dropped, the entities decoded (no list and no table in the markup of
\* the model, so the two loops run zero times)
RECURSIVE LenientText(_, _)
LenientText(s, i) ==
    IF i > Len(s) THEN <<>>
    ELSE IF IsTagAt(s, i) THEN LenientText(s, Find(s, i, ">") + 1)
    ELSE IF StartsWith(s, i, E_nbsp) THEN <<"nbsp">> \o LenientText(s, i + Len(E_nbsp))
    ELSE IF StartsWith(s, i, E_lt) THEN <<"<">> \o LenientText(s, i + Len(E_lt))
    ELSE IF StartsWith(s, i, E_gt) THEN <<">">> \o LenientText(s, i + Len(E_gt))
    ELSE IF StartsWith(s, i, E_amp) THEN <<"&">> \o LenientText(s, i + Len(E_amp))
    ELSE IF StartsWith(s, i, E_quot) THEN <<"\"">> \o LenientText(s, i + Len(E_quot))
    ELSE <<s[i]>> \o LenientText(s, i + 1)

\* the lenient variant on any value: no try around the parse
lenient_clean_html_content(v, soup_raises) ==
    IF ~Truthy(v) THEN Out(<<>>)
    ELSE IF v.t # "str" THEN Raised("TypeError")
    ELSE IF soup_raises THEN Raised("Exception")
    ELSE LET text == LenientText(v.s, 1)
             t1 == CollapseSpace(text, 1)
             t2 == CollapseBlankLines(t1, 1)
         IN Out(Strip(t2))

RECURSIVE Flatten(_)
Flatten(ts) == IF ts = <<>> THEN <<>> ELSE Head(ts) \o Flatten(Tail(ts))

HtmlTokens ==
    {<<"a">>, <<" ">>, <<"\n">>, <<"<", "p", ">">>, <<"<", "/", "p", ">">>,
     <<"<", "b", "r", ">">>, <<"<", "b", ">">>, E_lt, E_nbsp, <<"<">>, <<">">>}

HtmlInputs == {Flatten(ts) : ts \in StringsOver(HtmlTokens, 0, MaxTokens)}

P_a == <<"<", "p", ">", "a", "<", "/", "p", ">">>
P_b == <<"<", "p", ">", "b", "<", "/", "p", ">">>

\* two or more non-empty paragraphs in a row
ParagraphLists == StringsOver({P_a, P_b}, 2, MaxTokens)

\* two words with n newlines between them
NewlineRun(n) == <<"a">> \o [k \in 1..n |-> "\n"] \o <<"b">>

NormValues ==
    {VStr(h) : h \in HtmlInputs} \cup {VNull, VInt(0), VInt(7)}
        \cup {VStr(Flatten(ps)) : ps \in ParagraphLists}
        \cup {VStr(NewlineRun(n)) : n \in 1..(MaxTokens + 1)}

InitNormalize ==
    /\ now \in CurrentYears
    /\ pin = Shape(<<>>, "raw", <<>>, <<>>, <<>>)
    /\ ppc = "ready"
    /\ pout = NoParse
    /\ CallIdle
    /\ PreIdle
    /\ IngestIdle
    /\ LoadIdle
    /\ nin \in [variant : {"lenient", "display"}, html : NormValues,
                soup_raises : BOOLEAN]
    /\ npc = "ready"
    /\ nout = NoOut

\* a direct call clean_html_content(nin.html) of the lenient variant
LenientCall ==
    /\ npc = "ready"
    /\ nin.variant = "lenient"
    /\ nout' = lenient_clean_html_content(nin.html, nin.soup_raises)
    /\ npc' = "done"
    /\ UNCHANGED <<now, pvars, cvars, ivars, lvars, qvars, nin>>

\* a direct call clean_html_content(nin.html) of the display variant
DisplayCall ==
    /\ npc = "ready"
    /\ nin.variant = "display"
    /\ nout' = display_clean_html_content(nin.html, nin.soup_raises)
    /\ npc' = "done"
    /\ UNCHANGED <<now, pvars, cvars, ivars, lvars, qvars, nin>>

NextNormalize == LenientCall \/ DisplayCall

SpecNormalize == InitNormalize /\ [][NextNormalize]_vars

\* C19: the normalizer never raises in either variant; an empty or null
\* input gives the empty string; when the parse or a tree operation fails
\* the result is the input with its tags stripped by pattern and its
\* whitespace collapsed.
Cex_C19_NeverRaises ==
    npc = "done" =>
        /\ nout.raised = "none"
        /\ (nin.html = VNull \/ nin.html = VStr(<<>>)) => nout.text = <<>>
        /\ (nin.soup_raises /\ nin.html.t = "str" /\ Strip(nin.html.s) # <<>>)
               => nout.text = Fallback(nin.html.s)

\* ------------------------------------------------------------------------
\* preprocess_text  (PY_Scripts/clean_html.py)
\* ------------------------------------------------------------------------
S_url == <<"[", "U", "R", "L", "]">>
S_email == <<"[", "E", "M", "A", "I", "L", "]">>
S_plus39 == <<"+", "3", "9">>

\* length of the match of https?://[^\s]+ at position i, 0 when none
UrlMatch(s, i) ==
    LET h == <<"h", "t", "t", "p">>
        c == <<":", "/", "/">>
        a == IF StartsWith(s, i, h)
             THEN (IF i + 4 <= Len(s) /\ s[i + 4] = "s" /\ StartsWith(s, i + 5, c)
                   THEN i + 8
                   ELSE IF StartsWith(s, i + 4, c) THEN i + 7 ELSE 0)
             ELSE 0
        r == IF a = 0 THEN 0 ELSE RunLen(s, a, {s[k] : k \in 1..Len(s)} \ Space)
    IN IF a # 0 /\ r >= 1 THEN (a - i) + r ELSE 0

\* re.sub(r'https?://[^\s]+', '[URL]', text)
RECURSIVE ReplaceUrls(_, _)
ReplaceUrls(s, i) ==
    IF i > Len(s) THEN <<>>
    ELSE LET m == UrlMatch(s, i)
         IN IF m > 0 THEN S_url \o ReplaceUrls(s, i + m)
            ELSE <<s[i]>> \o ReplaceUrls(s, i + 1)

\* \w at position i
IsWord(s, i) == i >= 1 /\ i <= Len(s) /\ s[i] \in Letter \cup Digit \cup {"_"}

\* \b between positions i - 1 and i
WordBoundary(s, i) == IsWord(s, i - 1) # IsWord(s, i)

LocalChars == Letter \cup Digit \cup {".", "_", "%", "+", "-"}
DomainChars == Letter \cup Digit \cup {".", "-"}
TldChars == Letter \cup {"|"}

\* [A-Z|a-z]{2,}\b from position a, taking at most t characters: the end of
\* the longest match, 0 when none
RECURSIVE TldEnd(_, _, _)
TldEnd(s, a, t) ==
    IF t < 2 THEN 0
    ELSE IF WordBoundary(s, a + t) THEN a + t
    ELSE TldEnd(s, a, t - 1)

\* [A-Za-z0-9.-]+\.[A-Z|a-z]{2,}\b from position a, the first part taking at
\* most k characters: the end of the match the backtracking finds first
RECURSIVE DomainEnd(_, _, _)
DomainEnd(s, a, k) ==
    IF k < 1 THEN 0
    ELSE LET e == IF a + k <= Len(s) /\ s[a + k] = "."
                  THEN TldEnd(s, a + k + 1, RunLen(s, a + k + 1, TldChars))
                  ELSE 0
         IN IF e # 0 THEN e ELSE DomainEnd(s, a, k - 1)

\* the end of the match of the e-mail pattern at position i, 0 when none
EmailEnd(s, i) ==
    LET r == RunLen(s, i, LocalChars)
    IN IF WordBoundary(s, i) /\ r >= 1 /\ i + r <= Len(s) /\ s[i + r] = "@"
       THEN DomainEnd(s, i + r + 1, RunLen(s, i + r + 1, DomainChars))
       ELSE 0

\* re.sub(r'\b[A-Za-z0-9._%+-]+@[A-Za-z0-9.-]+\.[A-Z|a-z]{2,}\b', '[EMAIL]', text)
RECURSIVE ReplaceEmails(_, _)
ReplaceEmails(s, i) ==
    IF i > Len(s) THEN <<>>
    ELSE LET e == EmailEnd(s, i)
         IN IF e # 0 THEN S_email \o ReplaceEmails(s, e)
            ELSE <<s[i]>> \o ReplaceEmails(s, i + 1)

Digits(s, i, n) == i + n - 1 <= Len(s) /\ \A k \in i..(i + n - 1) : s[k] \in Digit

\* (\d{3})\s*(\d{3})\s*(\d{4}) at position j: the three groups' starts and
\* the end of the match, <<>> when none
PhoneBody(s, j) ==
    LET b == j + 3 + RunLen(s, j + 3, Space)
        c == b + 3 + RunLen(s, b + 3, Space)
    IN IF Digits(s, j, 3) /\ Digits(s, b, 3) /\ Digits(s, c, 4)
       THEN <<j, b, c, c + 4>> ELSE <<>>

\* (\+39\s*)?(\d{3})\s*(\d{3})\s*(\d{4}) at position i
PhoneMatch(s, i) ==
    LET p == IF StartsWith(s, i, S_plus39)
             THEN PhoneBody(s, i + 3 + RunLen(s, i + 3, Space))
             ELSE <<>>
    IN IF p # <<>> THEN p ELSE PhoneBody(s, i)

\* re.sub(r'(\+39\s*)?(\d{3})\s*(\d{3})\s*(\d{4})', r'+39 \2 \3 \4', text)
RECURSIVE NormalizePhones(_, _)
NormalizePhones(s, i) ==
    IF i > Len(s) THEN <<>>
    ELSE LET m == PhoneMatch(s, i)
         IN IF m # <<>>
            THEN S_plus39 \o <<" ">> \o SubSeq(s, m[1], m[1] + 2) \o <<" ">>
                 \o SubSeq(s, m[2], m[2] + 2) \o <<" ">>
                 \o SubSeq(s, m[3], m[3] + 3) \o NormalizePhones(s, m[4])
            ELSE <<s[i]>> \o NormalizePhones(s, i + 1)

DateSeparators == {"/", ".", "-"}

\* [/.-](\d{1,2})[/.-](\d{4}) at position j, the middle group of n2 digits
DateTail(s, j, n2) ==
    /\ j <= Len(s) /\ s[j] \in DateSeparators
    /\ Digits(s, j + 1, n2)
    /\ j + 1 + n2 <= Len(s) /\ s[j + 1 + n2] \in DateSeparators
    /\ Digits(s, j + 2 + n2, 4)

\* (\d{1,2})[/.-](\d{1,2})[/.-](\d{4}) at position i: the lengths of the
\* first two groups, longest first, <<>> when none
DateMatch(s, i) ==
    IF Digits(s, i, 2) /\ DateTail(s, i + 2, 2) THEN <<2, 2>>
    ELSE IF Digits(s, i, 2) /\ DateTail(s, i + 2, 1) THEN <<2, 1>>
    ELSE IF Digits(s, i, 1) /\ DateTail(s, i + 1, 2) THEN <<1, 2>>
    ELSE IF Digits(s, i, 1) /\ DateTail(s, i + 1, 1) THEN <<1, 1>>
    ELSE <<>>

\* re.sub(r'(\d{1,2})[/.-](\d{1,2})[/.-](\d{4})', r'\1/\2/\3', text)
RECURSIVE StandardizeDates(_, _)
StandardizeDates(s, i) ==
    IF i > Len(s) THEN <<>>
    ELSE LET m == DateMatch(s, i)
         IN IF m # <<>>
            THEN SubSeq(s, i, i + m[1] - 1) \o <<"/">>
                 \o SubSeq(s, i + m[1] + 1, i + m[1] + m[2]) \o <<"/">>
                 \o SubSeq(s, i + m[1] + m[2] + 2, i + m[1] + m[2] + 5)
                 \o StandardizeDates(s, i + m[1] + m[2] + 6)
            ELSE <<s[i]>> \o StandardizeDates(s, i + 1)

preprocess_text(text) ==
    IF text = <<>> THEN <<>>
    ELSE LET t1 == ReplaceUrls(text, 1)
             t2 == ReplaceEmails(t1, 1)
             t3 == NormalizePhones(t2, 1)
             t4 == StandardizeDates(t3, 1)
         IN Strip(CollapseSpace(t4, 1))

\* ------------------------------------------------------------------------
\* process_tickets  (PY_Scripts/clean_html.py)
\* ------------------------------------------------------------------------
MaxRecords == 2    \* most records in the input file

FallbackYear == <<"2", "0", "2", "4">>
S_spc == <<"/", "S", "P", "C", "-">>
S_utc == <<"+", "0", "0", ":", "0", "0">>
S_None == <<"N", "o", "n", "e">>

DigitChar(d) == CHOOSE c \in Digit : DigitVal(c) = d

\* str(n) of a natural number
RECURSIVE IntToStr(_)
IntToStr(n) ==
    IF n < 10 THEN <<DigitChar(n)>>
    ELSE IntToStr(n \div 10) \o <<DigitChar(n % 10)>>

\* f"{v}"
FStr(v) ==
    CASE v.t = "str" -> v.s
      [] v.t = "int" -> IntToStr(v.n)
      [] OTHER -> S_None

IsLeap(y) == (y % 4 = 0 /\ y % 100 # 0) \/ y % 400 = 0

DaysInMonth(y, m) ==
    IF m \in {4, 6, 9, 11} THEN 30
    ELSE IF m = 2 THEN (IF IsLeap(y) THEN 29 ELSE 28)
    ELSE 31

\* two digits at position i whose value is at most max
TwoDigits(s, i, max) == Digits(s, i, 2) /\ ToInt(SubSeq(s, i, i + 1)) <= max

\* YYYY-MM-DD at the start of s, a date of the calendar
IsoDatePart(s) ==
    /\ Digits(s, 1, 4) /\ StartsWith(s, 5, <<"-">>)
    /\ Digits(s, 6, 2) /\ StartsWith(s, 8, <<"-">>)
    /\ Digits(s, 9, 2)
    /\ ToInt(SubSeq(s, 1, 4)) >= 1
    /\ ToInt(SubSeq(s, 6, 7)) \in 1..12
    /\ ToInt(SubSeq(s, 9, 10)) \in
           1..DaysInMonth(ToInt(SubSeq(s, 1, 4)), ToInt(SubSeq(s, 6, 7)))

\* HH[:MM[:SS[.fff[fff]]]]
IsoClock(t) ==
    /\ Len(t) \in {2, 5, 8, 12, 15}
    /\ TwoDigits(t, 1, 23)
    /\ Len(t) >= 5 => (t[3] = ":" /\ TwoDigits(t, 4, 59))
    /\ Len(t) >= 8 => (t[6] = ":" /\ TwoDigits(t, 7, 59))
    /\ Len(t) >= 12 => (t[9] = "." /\ Digits(t, 10, Len(t) - 9))

\* the offset after the sign: HH:MM[:SS]
IsoOffset(z) ==
    /\ Len(z) \in {5, 8}
    /\ TwoDigits(z, 1, 23)
    /\ z[3] = ":" /\ TwoDigits(z, 4, 59)
    /\ Len(z) = 8 => (z[6] = ":" /\ TwoDigits(z, 7, 59))

IsoTime(t) ==
    LET m == Find(t, 1, "-")
        p == IF m # 0 THEN m ELSE Find(t, 1, "+")
    IN IF p = 0 THEN IsoClock(t)
       ELSE IsoClock(SubSeq(t, 1, p - 1)) /\ IsoOffset(From(t, p + 1))

\* datetime.fromisoformat(s).year, 0 when it raises ValueError; the extended
\* format YYYY-MM-DD[*HH[:MM[:SS[.fff[fff]]]][+HH:MM[:SS]]]
fromisoformat(s) ==
    IF IsoDatePart(s) /\ (Len(s) = 10 \/ (Len(s) >= 12 /\ IsoTime(From(s, 12))))
    THEN ToInt(SubSeq(s, 1, 4))
    ELSE 0

\* lines 133-139: the year of the record date, the default when the date is
\* falsy or when anything raises inside the inner try
YearOf(date_str) ==
    IF ~Truthy(date_str) THEN FallbackYear
    ELSE IF date_str.t # "str" THEN FallbackYear
    ELSE LET y == fromisoformat(Replace(date_str.s, 1, <<"Z">>, S_utc))
         IN IF y = 0 THEN FallbackYear ELSE IntToStr(y)

\* ticket.get(key, '')
TicketGet(ticket, key) == IF ticket[key] = VAbsent THEN VStr(<<>>) ELSE ticket[key]

\* date_str.split('T')[0] if 'T' in date_str else date_str, for a string
MetadataDate(date_str) ==
    LET p == Find(date_str.s, 1, "T")
    IN IF p # 0 THEN VStr(SubSeq(date_str.s, 1, p - 1)) ELSE date_str

NoDocument == [id |-> <<>>, text |-> <<>>, metadata |-> [none |-> TRUE]]

\* the body of the loop, lines 118-157, on one record: the document it
\* appends, or the exception raised before the append
process_record(ticket) ==
    IF ticket.kind # "mapping"
    THEN [raised |-> "AttributeError", document |-> NoDocument]
    ELSE LET ttnumtic == TicketGet(ticket, "ttnumtic")
             title == TicketGet(ticket, "ttshotxt")
             company == TicketGet(ticket, "cotitle")
             html_content == TicketGet(ticket, "dt_testo")
             date_str == TicketGet(ticket, "dt__data")
             clean_text == lenient_clean_html_content(html_content, ticket.soup_raises)
             year == YearOf(date_str)
         IN IF clean_text.raised # "none"
            THEN [raised |-> clean_text.raised, document |-> NoDocument]
            ELSE IF date_str.t # "str"
            THEN [raised |-> "TypeError", document |-> NoDocument]
            ELSE [raised |-> "none",
                  document |->
                     [id |-> FStr(ttnumtic) \o S_spc \o year,
                      text |-> preprocess_text(clean_text.text),
                      metadata |-> [title |-> title,
                                    company |-> company,
                                    date |-> MetadataDate(date_str),
                                    year |-> year,
                                    original_id |-> ttnumtic]]]

\* "except Exception as e" of the loop
IngestCatchesValueErrorOnly(e) == e = "ValueError"

IngestCatches(e) == e \in ExceptionClasses

Record(num, body, date, soup_raises) ==
    [kind |-> "mapping", ttnumtic |-> num, ttshotxt |-> VStr(<<"t">>),
     cotitle |-> VAbsent, dt_testo |-> body, dt__data |-> date,
     soup_raises |-> soup_raises]

NotAMapping ==
    [kind |-> "string", ttnumtic |-> VAbsent, ttshotxt |-> VAbsent,
     cotitle |-> VAbsent, dt_testo |-> VAbsent, dt__data |-> VAbsent,
     soup_raises |-> FALSE]

D_full == <<"2", "0", "2", "3", "-", "0", "5", "-", "0", "1", "T", "1", "0",
            ":", "2", "0", ":", "3", "0", "Z">>
D_day == <<"2", "0", "2", "3", "-", "0", "5", "-", "0", "1">>
D_leap == <<"2", "0", "2", "4", "-", "0", "2", "-", "2", "9">>
D_early == <<"0", "9", "9", "9", "-", "0", "5", "-", "0", "1">>
D_italian == <<"0", "1", "/", "0", "5", "/", "2", "0", "2", "3">>
D_month13 == <<"2", "0", "2", "3", "-", "1", "3", "-", "0", "1">>

RecordSet ==
    {Record(VStr(<<"1", "2">>), VStr(B_paras), VStr(D_full), FALSE),
     Record(VStr(<<"7">>), VStr(B_escaped), VStr(D_day), FALSE),
     Record(VStr(<<"1", "2">>), VStr(<<>>), VAbsent, FALSE),
     Record(VStr(<<"1", "2">>), VStr(B_plain), VStr(<<>>), FALSE),
     Record(VStr(<<"1", "2">>), VStr(B_plain), VStr(D_italian), FALSE),
     Record(VStr(<<"3">>), VStr(B_plain), VStr(D_month13), FALSE),
     Record(VStr(<<"1", "2">>), VStr(B_plain), VNull, FALSE),
     Record(VStr(<<"1", "2">>), VStr(B_plain), VStr(D_early), FALSE),
     NotAMapping,
     Record(VStr(<<"1", "2">>), VInt(7), VStr(D_day), FALSE),
     Record(VStr(<<"1", "2">>), VStr(B_paras), VStr(D_day), TRUE),
     Record(VInt(5), VStr(B_plain), VStr(D_full), FALSE),
     Record(VAbsent, VNull, VStr(D_leap), FALSE),
     Record(VStr(<<"A", "1">>), VStr(B_plain), VInt(7), FALSE)}

InitIngest ==
    /\ now \in CurrentYears
    /\ pin = Shape(<<>>, "raw", <<>>, <<>>, <<>>)
    /\ ppc = "ready"
    /\ pout = NoParse
    /\ CallIdle
    /\ PreIdle
    /\ NormIdle
    /\ LoadIdle
    /\ ipc = "loop"
    /\ tickets \in SeqsOver(RecordSet, 0, MaxRecords)
    /\ t_idx = 0
    /\ processed_documents = <<>>
    /\ emitted_from = <<>>
    /\ chroma_data = NoChromaData

\* one iteration whose body reaches the append
RecordEmitted ==
    /\ ipc = "loop"
    /\ t_idx < Len(tickets)
    /\ LET r == process_record(tickets[t_idx + 1])
       IN /\ r.raised = "none"
          /\ processed_documents' = Append(processed_documents, r.document)
          /\ emitted_from' = Append(emitted_from, t_idx + 1)
    /\ t_idx' = t_idx + 1
    /\ UNCHANGED <<ipc, tickets, chroma_data>>
    /\ UNCHANGED <<now, pvars, cvars, nvars, lvars, qvars>>

\* one iteration whose body raises: caught, printed, continue
RecordSkipped ==
    /\ ipc = "loop"
    /\ t_idx < Len(tickets)
    /\ LET r == process_record(tickets[t_idx + 1])
       IN /\ r.raised # "none"
          /\ IF IngestCatches(r.raised)
             THEN t_idx' = t_idx + 1 /\ UNCHANGED ipc
             ELSE ipc' = "aborted" /\ UNCHANGED t_idx
    /\ UNCHANGED <<tickets, processed_documents, emitted_from, chroma_data>>
    /\ UNCHANGED <<now, pvars, cvars, nvars, lvars, qvars>>

\* lines 168-175: the object written to the output file
BuildOutput ==
    /\ ipc = "loop"
    /\ t_idx = Len(tickets)
    /\ chroma_data' = [written |-> TRUE,
                       total_documents |-> Len(processed_documents),
                       documents |-> processed_documents]
    /\ ipc' = "done"
    /\ UNCHANGED <<tickets, t_idx, processed_documents, emitted_from>>
    /\ UNCHANGED <<now, pvars, cvars, nvars, lvars, qvars>>

NextIngest == RecordEmitted \/ RecordSkipped \/ BuildOutput

SpecIngest == InitIngest /\ [][NextIngest]_vars

\* ------------------------------------------------------------------------
\* Claims on process_tickets
\* ------------------------------------------------------------------------
IngestDone == ipc = "done"

RecordRaises(k) == process_record(tickets[k]).raised # "none"

EmittedIndexes == {emitted_from[j] : j \in 1..Len(emitted_from)}

\* the document emitted from record k
DocumentOf(k) ==
    processed_documents[CHOOSE j \in 1..Len(emitted_from) : emitted_from[j] = k]

\* C13: a record whose processing raises is skipped and the batch goes on:
\* every other record gives exactly one document, the documents are in input
\* order, and total_documents is the number of documents emitted.
Thm_C13_BadRecordSkipped ==
    /\ ipc # "aborted"
    /\ IngestDone =>
          /\ \A k \in 1..Len(tickets) : RecordRaises(k) <=> k \notin EmittedIndexes
          /\ \A i, j \in 1..Len(emitted_from) : i < j => emitted_from[i] < emitted_from[j]
          /\ Len(processed_documents) = Len(emitted_from)
          /\ \A j \in 1..Len(emitted_from) :
                processed_documents[j] = process_record(tickets[emitted_from[j]]).document
          /\ chroma_data.documents = processed_documents
          /\ chroma_data.total_documents = Len(processed_documents)

Wit_C13_FirstRecordSkipped ==
    /\ IngestDone
    /\ Len(tickets) = 2
    /\ tickets[1] = NotAMapping
    /\ emitted_from = <<2>>
    /\ chroma_data.total_documents = 1

\* the record date cannot be used: missing, null, empty or not ISO-8601
DateUnusable(ticket) ==
    \/ ticket.dt__data \in {VAbsent, VNull, VStr(<<>>)}
    \/ /\ ticket.dt__data.t = "str"
       /\ fromisoformat(Replace(ticket.dt__data.s, 1, <<"Z">>, S_utc)) = 0

\* the normalizer accepts the body of the record
BodyUsable(ticket) ==
    /\ ticket.kind = "mapping"
    /\ lenient_clean_html_content(TicketGet(ticket, "dt_testo"), ticket.soup_raises).raised = "none"

\* C14: a record whose date is missing, null, empty or not parsable still
\* gives a document, whose year is "2024" in the id and in metadata.year.
Cex_C14_FallbackYear ==
    IngestDone =>
        \A k \in 1..Len(tickets) :
            (BodyUsable(tickets[k]) /\ DateUnusable(tickets[k])) =>
                /\ k \in EmittedIndexes
                /\ DocumentOf(k).metadata.year = FallbackYear
                /\ DocumentOf(k).id = FStr(TicketGet(tickets[k], "ttnumtic")) \o S_spc \o FallbackYear

DateParsable(ticket) ==
    /\ ticket.dt__data.t = "str"
    /\ fromisoformat(Replace(ticket.dt__data.s, 1, <<"Z">>, S_utc)) # 0

\* C15: for a parsable record date, the id of the document is the ticket
\* number, "/SPC-" and the year; the year is a four-digit string, the same
\* as metadata.year, and the number is metadata.original_id.
Cex_C15_IdFormat ==
    \A j \in 1..Len(processed_documents) :
        LET d == processed_documents[j]
            t == tickets[emitted_from[j]]
        IN DateParsable(t) =>
              /\ d.id = FStr(d.metadata.original_id) \o S_spc \o d.metadata.year
              /\ d.metadata.original_id = TicketGet(t, "ttnumtic")
              /\ Len(d.metadata.year) = 4
              /\ AllIn(d.metadata.year, Digit)

IsDigitString(v) == v.t = "str" /\ v.s # <<>> /\ AllIn(v.s, Digit)

\* C16: for a record whose ticket number is a digit string, parse_ticket_id
\* of the document's id gives back that number and the integer value of
\* metadata.year.
Cex_C16_IdIsJoinKey ==
    \A j \in 1..Len(processed_documents) :
        LET d == processed_documents[j]
            t == tickets[emitted_from[j]]
        IN IsDigitString(t.ttnumtic) =>
              parse_ticket_id(d.id, now) = ParseOk(t.ttnumtic.s, ToInt(d.metadata.year))

\* ------------------------------------------------------------------------
\* TicketLoader.load_tickets_from_json  (PY_Scripts/ticket_loader.py)
\* ------------------------------------------------------------------------
MaxTickets == 1001    \* most documents in the JSON file

batch_size == 500

\* one document of the JSON file: the k-th of the file
Ticket(k, has_text, has_id) ==
    [id |-> IF has_id THEN VStr(IntToStr(k) \o S_spc \o FallbackYear) ELSE VAbsent,
     text |-> IF has_text THEN VStr(IntToStr(k)) ELSE VAbsent,
     metadata |-> [original_id |-> VStr(IntToStr(k))]]

LoadSizes ==
    {0, 1, batch_size - 1, batch_size, batch_size + 1, 2 * batch_size, MaxTickets}

\* which documents of the file have a 'text'
TextPatterns == {"all", "none", "odd", "not_first", "not_last"}

HasTextAt(pattern, k, n) ==
    CASE pattern = "all" -> TRUE
      [] pattern = "none" -> FALSE
      [] pattern = "odd" -> k % 2 = 1
      [] pattern = "not_first" -> k # 1
      [] pattern = "not_last" -> k # n

\* which documents of the file have an 'id'
IdPatterns == {"all", "none", "even"}

HasIdAt(pattern, k) ==
    CASE pattern = "all" -> TRUE
      [] pattern = "none" -> FALSE
      [] pattern = "even" -> k % 2 = 0

LoadInputs ==
    {[k \in 1..n |-> Ticket(k, HasTextAt(pt, k, n), HasIdAt(pid, k))] :
        n \in LoadSizes, pt \in TextPatterns, pid \in IdPatterns}

\* 'text' in ticket
HasText(ticket) == ticket.text # VAbsent

S_ticket == <<"t", "i", "c", "k", "e", "t", "_">>

\* lines 57-81 on the whole list: the three lists the loop builds
PreparedDocuments(ts) ==
    LET f == SelectSeq(ts, HasText) IN [j \in 1..Len(f) |-> f[j].text.s]

PreparedMetadatas(ts) ==
    LET f == SelectSeq(ts, HasText)
    IN [j \in 1..Len(f) |->
           [id |-> IF f[j].id = VAbsent THEN VAbsent ELSE VStr(FStr(f[j].id)),
            original_id |-> VStr(FStr(f[j].metadata.original_id))]]

PreparedIds(ts) ==
    LET f == SelectSeq(ts, HasText)
    IN [j \in 1..Len(f) |->
           IF f[j].id = VAbsent THEN S_ticket \o IntToStr(j - 1) ELSE FStr(f[j].id)]

\* end_idx = min(i + batch_size, len(documents))
end_idx_one_more(i, n) == Min(i + batch_size + 1, n)

end_idx(i, n) == Min(i + batch_size, n)

\* list[i:end_idx]
Slice(list, i, e) == SubSeq(list, i + 1, e)

\* the except clauses of the function: FileNotFoundError, JSONDecodeError
\* and Exception
LoadCatchesFileErrorsOnly(e) == e.type \in {"FileNotFoundError", "JSONDecodeError"}

LoadCatches(e) ==
    e.type \in {"FileNotFoundError", "JSONDecodeError"} \cup ExceptionClasses

S_load_error == <<"E", "r", "r", "o", "r", "e">>

InitLoad ==
    /\ now \in CurrentYears
    /\ pin = Shape(<<>>, "raw", <<>>, <<>>, <<>>)
    /\ ppc = "ready"
    /\ pout = NoParse
    /\ CallIdle
    /\ PreIdle
    /\ NormIdle
    /\ IngestIdle
    /\ lpc = "prepare"
    /\ data \in LoadInputs
    /\ documents = <<>>
    /\ metadatas = <<>>
    /\ ids = <<>>
    /\ batch_start = 0
    /\ added = <<>>
    /\ lexc = NoExc
    /\ printed = <<>>

\* lines 53-81: the three lists
LPrepare ==
    /\ lpc = "prepare"
    /\ documents' = PreparedDocuments(data)
    /\ metadatas' = PreparedMetadatas(data)
    /\ ids' = PreparedIds(data)
    /\ batch_start' = 0
    /\ lpc' = "insert"
    /\ UNCHANGED <<data, added, lexc, printed>>
    /\ UNCHANGED <<now, pvars, cvars, nvars, ivars, qvars>>

\* one iteration of the chunk loop, collection.add succeeding
LAdd ==
    /\ lpc = "insert"
    /\ batch_start < Len(documents)
    /\ LET e == end_idx(batch_start, Len(documents))
       IN added' = Append(added, [documents |-> Slice(documents, batch_start, e),
                                  metadatas |-> Slice(metadatas, batch_start, e),
                                  ids |-> Slice(ids, batch_start, e)])
    /\ batch_start' = batch_start + batch_size
    /\ UNCHANGED <<lpc, data, documents, metadatas, ids, lexc, printed>>
    /\ UNCHANGED <<now, pvars, cvars, nvars, ivars, qvars>>

\* one iteration of the chunk loop, collection.add raising
LAddRaises ==
    /\ lpc = "insert"
    /\ batch_start < Len(documents)
    /\ lexc' = Exc("Exception", "add")
    /\ lpc' = "l_raise"
    /\ UNCHANGED <<data, documents, metadatas, ids, batch_start, added, printed>>
    /\ UNCHANGED <<now, pvars, cvars, nvars, ivars, qvars>>

\* the loop is over: lines 103-104, then the function returns
LComplete ==
    /\ lpc = "insert"
    /\ batch_start >= Len(documents)
    /\ lpc' = "returned"
    /\ UNCHANGED <<data, documents, metadatas, ids, batch_start, added, lexc, printed>>
    /\ UNCHANGED <<now, pvars, cvars, nvars, ivars, qvars>>

\* lines 106-111: the except clauses
LExcept ==
    /\ lpc = "l_raise"
    /\ IF LoadCatches(lexc)
       THEN printed' = S_load_error /\ lpc' = "returned"
       ELSE lpc' = "raised" /\ UNCHANGED printed
    /\ UNCHANGED <<data, documents, metadatas, ids, batch_start, added, lexc>>
    /\ UNCHANGED <<now, pvars, cvars, nvars, ivars, qvars>>

NextLoad == LPrepare \/ LAdd \/ LAddRaises \/ LComplete \/ LExcept

SpecLoad == InitLoad /\ [][NextLoad]_vars

\* ------------------------------------------------------------------------
\* Claims on load_tickets_from_json
\* ------------------------------------------------------------------------
RECURSIVE ChunksConcat(_, _)
ChunksConcat(chunks, field) ==
    IF chunks = <<>> THEN <<>>
    ELSE Head(chunks)[field] \o ChunksConcat(Tail(chunks), field)

\* the texts of the file's documents that have one, in file order
TextsOfFile == LET f == SelectSeq(data, HasText) IN [j \in 1..Len(f) |-> f[j].text.s]

LoadSucceeded == lpc = "returned" /\ lexc = NoExc

\* C17: every insert call carries 1..500 documents, every call but the last
\* exactly 500, each chunk's three lists are aligned, and after a load
\* without failure the chunks, joined in call order, are the documents of
\* the file that have a text, each once.
Thm_C17_ChunksOf500 ==
    /\ \A c \in 1..Len(added) :
          /\ Len(added[c].documents) \in 1..500
          /\ c < Len(added) => Len(added[c].documents) = 500
          /\ Len(added[c].metadatas) = Len(added[c].documents)
          /\ Len(added[c].ids) = Len(added[c].documents)
          /\ \A m \in 1..Len(added[c].documents) :
                /\ added[c].metadatas[m].original_id = VStr(added[c].documents[m])
                /\ added[c].metadatas[m].id \in {VAbsent, VStr(added[c].ids[m])}
    /\ LoadSucceeded => ChunksConcat(added, "documents") = TextsOfFile

Wit_C17_TwoChunksOneSkipped ==
    /\ LoadSucceeded
    /\ Len(data) = 1000
    /\ Len(SelectSeq(data, HasText)) = 999
    /\ Len(added) = 2
    /\ Len(added[1].documents) = 500
    /\ Len(added[2].documents) = 499

\* C18: a failure of the store while one chunk is inserted leaves
\* load_tickets_from_json as an exception.
Cex_C18_AddFailurePropagates ==
    (lexc # NoExc /\ lpc \in {"returned", "raised"}) => lpc = "raised"

\* C18, amended: the failure ends the chunk loop and is caught by the
\* function's own "except Exception", which prints it; the function returns
\* normally, the chunks added before stay, the others are never added.
Thm_C18_AddFailurePrinted ==
    lexc # NoExc =>
        /\ lpc \in {"l_raise", "returned"}
        /\ lpc = "returned" => printed = S_load_error
        /\ Len(ChunksConcat(added, "documents")) = batch_start
        /\ batch_start < Len(documents)

Wit_C18_SecondChunkFails ==
    /\ lpc = "returned"
    /\ lexc # NoExc
    /\ Len(added) = 1
    /\ printed = S_load_error

\* ------------------------------------------------------------------------
\* Cancellation of a tool call  (server.py, tools/search.py, tools/get_ticket.py)
\*
\* asyncio.CancelledError derives from BaseException, not from Exception.
\* ------------------------------------------------------------------------
\* where the call stands when the cancellation is delivered, and the
\* innermost enclosing try the exception reaches first
CancelRoute ==
    [dispatch |-> "hct_raise",
     s_validate |-> "s_raise", s_collection |-> "s_raise",
     s_query |-> "s_raise", s_format |-> "s_raise",
     g_validate |-> "g_raise", g_parse |-> "g_raise", g_connect |-> "g_raise",
     g_execute |-> "g_finally", g_rows |-> "g_finally"]

\* CancelledError is raised inside the operation in progress
Cancel ==
    /\ pc \in DOMAIN CancelRoute
    /\ exc' = Exc("CancelledError", "cancelled")
    /\ pc' = CancelRoute[pc]
    /\ UNCHANGED <<name, arguments, query_text, n_results, ticket_id, parsed, conn,
                   rows, ticket_entries, results, result, response, events>>
    /\ UNCHANGED <<now, pvars, xvars>>

NextCancel == Next \/ Cancel

SpecCancel == Init /\ [][NextCancel]_vars

Cancelled == exc.type = "CancelledError"

\* C20: a cancellation delivered during a tool operation is never swallowed:
\* no handler turns it into a JSON result, it stays the exception in flight
\* until the transport has it, and a connection that was open is closed.
Thm_C20_CancellationPropagates ==
    /\ [](Cancelled =>
            /\ result = NoText
            /\ pc \in {"s_raise", "g_finally", "g_raise", "hct_raise", "returned"}
            /\ pc = "returned" => response = [type |-> "raised", text |-> NoText]
            /\ (pc \in {"g_raise", "hct_raise", "returned"} /\ conn # "none")
                   => conn = "closed")
    /\ [][(Cancelled /\ pc # "returned") => Cancelled']_vars

Wit_C20_CancelledWithConnection ==
    /\ Cancelled
    /\ pc = "returned"
    /\ response.type = "raised"
    /\ conn = "closed"
    /\ rows # <<>>

\* ------------------------------------------------------------------------
\* Claims on the display-mode normalizer
\* ------------------------------------------------------------------------
DisplayDone == npc = "done" /\ nin.variant = "display" /\ ~nin.soup_raises

\* the text inside <p>...</p>
ParagraphText(p) == SubSeq(p, 4, Len(p) - 4)

\* the paragraphs' texts with one blank line between two of them
RECURSIVE JoinParagraphs(_)
JoinParagraphs(ps) ==
    IF Len(ps) = 1 THEN ParagraphText(ps[1])
    ELSE ParagraphText(Head(ps)) \o <<"\n", "\n">> \o JoinParagraphs(Tail(ps))

\* C21: in display mode the texts of consecutive non-empty paragraphs come
\* out separated by exactly two newlines, and a run of 3 or more newlines
\* between two words comes out as exactly two.
Cex_C21_ParagraphBreakKept ==
    DisplayDone =>
        /\ \A ps \in ParagraphLists :
              nin.html = VStr(Flatten(ps)) => nout = Out(JoinParagraphs(ps))
        /\ \A n \in 3..(MaxTokens + 1) :
              nin.html = VStr(NewlineRun(n)) => nout = Out(NewlineRun(2))

\* ------------------------------------------------------------------------
\* preprocess_text on its own: texts built from pieces
\* ------------------------------------------------------------------------
MaxPieces == 4     \* most pieces in a text given to preprocess_text

TextPieces ==
    {<<"1", "2", ".", "0", "3", ".">>, <<"1", "/", "2", "/">>,
     <<"2", "0", "2", "4">>, <<"3", "3", "3">>, <<"4", "5", "6", "7">>,
     <<"+", "3", "9">>, <<" ">>, <<"a">>}

TextInputs == {Flatten(ps) : ps \in StringsOver(TextPieces, 0, MaxPieces)}

\* the text as it reaches line 71: after the URL and e-mail placeholders
BeforePhones(text) == ReplaceEmails(ReplaceUrls(text, 1), 1)

\* lines 71 and 74 as written: phones, then dates
PhonesThenDates(text) == StandardizeDates(NormalizePhones(text, 1), 1)

\* lines 74 and 71 exchanged: dates, then phones
DatesThenPhones(text) == NormalizePhones(StandardizeDates(text, 1), 1)

InitPreprocess ==
    /\ now \in CurrentYears
    /\ pin = Shape(<<>>, "raw", <<>>, <<>>, <<>>)
    /\ ppc = "ready"
    /\ pout = NoParse
    /\ CallIdle
    /\ NormIdle
    /\ IngestIdle
    /\ LoadIdle
    /\ q_pc = "ready"
    /\ q_text \in TextInputs
    /\ q_code = NoResult
    /\ q_swapped = NoResult

\* preprocess_text(q_text) up to line 74
PreprocessCode ==
    /\ q_pc = "ready"
    /\ ~q_code.done
    /\ q_code' = [done |-> TRUE, text |-> PhonesThenDates(BeforePhones(q_text))]
    /\ q_pc' = IF q_swapped.done THEN "done" ELSE "ready"
    /\ UNCHANGED <<q_text, q_swapped>>
    /\ UNCHANGED <<now, pvars, cvars, nvars, ivars, lvars>>

\* the same text through the two substitutions in the other order
PreprocessSwapped ==
    /\ q_pc = "ready"
    /\ ~q_swapped.done
    /\ q_swapped' = [done |-> TRUE, text |-> DatesThenPhones(BeforePhones(q_text))]
    /\ q_pc' = IF q_code.done THEN "done" ELSE "ready"
    /\ UNCHANGED <<q_text, q_code>>
    /\ UNCHANGED <<now, pvars, cvars, nvars, ivars, lvars>>

NextPreprocess == PreprocessCode \/ PreprocessSwapped

SpecPreprocess == InitPreprocess /\ [][NextPreprocess]_vars

\* C22: the phone substitution and the date substitution commute: either
\* order gives the same text before the final whitespace collapse.
Cex_C22_PhoneDateCommute ==
    q_pc = "done" => q_code.text = q_swapped.text

\* ------------------------------------------------------------------------
\* Order of validation, parsing and connection in get_ticket_by_id
\* ------------------------------------------------------------------------
\* an identifier with a character other than space in it and no digit
UnparsableIdentifier ==
    /\ name = "get_ticket_by_id"
    /\ ticket_id.t = "str"
    /\ Strip(ticket_id.s) # <<>>
    /\ \A k \in 1..Len(ticket_id.s) : ticket_id.s[k] \notin Digit

\* C23: a call that fails on an empty or on an unparsable identifier has
\* acquired no connection and issued no query, and every acquisition of a
\* connection comes right after a parse that gave a number and a year.
Thm_C23_ParseBeforeConnect ==
    /\ (EmptyIdentifier \/ UnparsableIdentifier) =>
          /\ conn = "none"
          /\ ~Happened("connect")
          /\ ~Happened("execute")
          /\ pc \notin {"g_connect", "g_execute", "g_rows", "g_finally"}
          /\ ToolDone => (HasJson(result) /\ result.json.error_type = "ValueError")
    /\ \A k \in 1..Len(events) :
          events[k] = "connect" =>
             /\ k > 1
             /\ events[k - 1] = "parse_ticket_id"
             /\ parsed.ok
             /\ parsed.number # <<>>
             /\ AllIn(parsed.number, Digit)
    /\ pc = "g_connect" => (parsed.ok /\ parsed.number # <<>>)
    /\ conn # "none" => Happened("connect")

Wit_C23_UnparsableNoConnection ==
    /\ pc = "returned"
    /\ UnparsableIdentifier
    /\ events = <<"parse_ticket_id">>
    /\ conn = "none"
    /\ response.text.json.error_type = "ValueError"
====
